---- MODULE Spec2Model ----
(***************************************************************************)
(* Model of the credit-statement proof pipeline (my_proof): Proof.generate, *)
(* the transaction-centric scorer of validators/scoring.py, the country     *)
(* fairness adjustment of country_config.py and the validators of           *)
(* validators/{completeness,financial,fraud,pii}.py.                        *)
(*                                                                         *)
(* JSON values are tagged records [t, v]:                                   *)
(*   null  [t |-> "null", v |-> 0]                                          *)
(*   bool  [t |-> "bool", v |-> TRUE/FALSE]                                 *)
(*   num   [t |-> "num",  v |-> n]    the number n/1000 (thousandths)       *)
(*   str   [t |-> "str",  v |-> <<"a","b">>]  a sequence of characters      *)
(*   list  [t |-> "list", v |-> <<x1, ..., xn>>]                            *)
(*   dict  [t |-> "dict", v |-> f]    f a function from keys (TLA+ strings) *)
(* Python floats are modelled by exact rationals [n, d] (d > 0, lowest      *)
(* terms). Where a float is compared with a threshold it may equal, it is   *)
(* [val, err]: the exact value and the sign of its rounding error.          *)
(***************************************************************************)
EXTENDS Integers, Sequences, FiniteSets, TLC

VARIABLES
    input,             \* what the input directory holds: NoFile, BadJson or a JSON value
    pc,                \* position of the running call
    args,              \* the call that is made: [fn |-> "generate"] or a library function with its arguments
    schema,            \* result of validate_schema: [type, valid]
    validation_result, \* result of calculate_credit_statement_score
    proof_response,    \* the ProofResponse that Proof.generate returns
    calls,             \* the functions Proof.generate has invoked, in order
    out                \* the value returned by a direct call of a library function

vars == <<input, pc, args, schema, validation_result, proof_response, calls, out>>

----------------------------------------------------------------------------
(* JSON values *)

Null == [t |-> "null", v |-> 0]
Bool(b) == [t |-> "bool", v |-> b]
Num(n) == [t |-> "num", v |-> n]
Str(s) == [t |-> "str", v |-> s]
List(s) == [t |-> "list", v |-> s]
Dict(f) == [t |-> "dict", v |-> f]
EmptyDict == Dict(<<>>)
EmptyStr == Str(<<>>)

\* Number of thousandths in one unit: Num(Unit) is the number 1.
Unit == 10 * 10 * 10

IsDict(x) == x.t = "dict"
IsList(x) == x.t = "list"
IsStr(x) == x.t = "str"
IsNum(x) == x.t = "num"
IsNull(x) == x.t = "null"

\* Python truthiness of a JSON value (`if x:` / `not x` / bool(x)).
Truthy(x) ==
    CASE x.t = "null" -> FALSE
      [] x.t = "bool" -> x.v
      [] x.t = "num" -> x.v # 0
      [] x.t = "str" -> Len(x.v) > 0
      [] x.t = "list" -> Len(x.v) > 0
      [] x.t = "dict" -> DOMAIN x.v # {}

\* d.get(key, default) on a dict d.
Get(d, key, default) == IF key \in DOMAIN d.v THEN d.v[key] ELSE default

\* `key in d` on a dict d.
HasKey(d, key) == key \in DOMAIN d.v

----------------------------------------------------------------------------
(* Exact rationals standing for Python floats *)

Abs(n) == IF n < 0 THEN -n ELSE n

RECURSIVE Gcd(_, _)
Gcd(a, b) == IF b = 0 THEN a ELSE Gcd(b, a % b)

\* The rational n/d in lowest terms with a positive denominator (d > 0).
Rat(n, d) ==
    LET g == Gcd(Abs(n), d)
    IN  IF n = 0 THEN [n |-> 0, d |-> 1] ELSE [n |-> n \div g, d |-> d \div g]

RInt(k) == [n |-> k, d |-> 1]
RAdd(a, b) == LET g == Gcd(a.d, b.d)
              IN  Rat(a.n * (b.d \div g) + b.n * (a.d \div g), (a.d \div g) * b.d)
RMul(a, b) == LET g1 == Gcd(Abs(a.n), b.d)
                  g2 == Gcd(Abs(b.n), a.d)
                  h1 == IF g1 = 0 THEN 1 ELSE g1
                  h2 == IF g2 = 0 THEN 1 ELSE g2
              IN  Rat((a.n \div h1) * (b.n \div h2), (a.d \div h2) * (b.d \div h1))
RLe(a, b) == a.n * b.d <= b.n * a.d
RLt(a, b) == a.n * b.d < b.n * a.d
RMin(a, b) == IF RLe(a, b) THEN a ELSE b

\* A float that is compared with a threshold is its exact value and the sign
\* of its rounding error: [val, err] with err in {-1, 0, 1} (an error smaller
\* than any difference of exact values). Sign(val - threshold) is cmp.
Sign(x) == IF x < 0 THEN -1 ELSE IF x > 0 THEN 1 ELSE 0
RCmp(a, b) == Sign(a.n * b.d - b.n * a.d)
Fl(val, err) == [val |-> val, err |-> err]
RoundingSigns == {-1, 0, 1}
\* computed <= threshold and computed >= threshold
LeRounded(cmp, err) == cmp < 0 \/ (cmp = 0 /\ err <= 0)
GeRounded(cmp, err) == cmp > 0 \/ (cmp = 0 /\ err >= 0)

----------------------------------------------------------------------------
(* Strings *)

\* str.upper() on the letters the model's strings use.
UpperChar(c) ==
    CASE c = "a" -> "A" [] c = "b" -> "B" [] c = "c" -> "C" [] c = "d" -> "D"
      [] c = "e" -> "E" [] c = "f" -> "F" [] c = "g" -> "G" [] c = "h" -> "H"
      [] c = "i" -> "I" [] c = "j" -> "J" [] c = "k" -> "K" [] c = "l" -> "L"
      [] c = "m" -> "M" [] c = "n" -> "N" [] c = "o" -> "O" [] c = "p" -> "P"
      [] c = "q" -> "Q" [] c = "r" -> "R" [] c = "s" -> "S" [] c = "t" -> "T"
      [] c = "u" -> "U" [] c = "v" -> "V" [] c = "w" -> "W" [] c = "x" -> "X"
      [] c = "y" -> "Y" [] c = "z" -> "Z" [] OTHER -> c

Upper(s) == [i \in 1..Len(s) |-> UpperChar(s[i])]

----------------------------------------------------------------------------
(* country_config.py *)

\* COUNTRY_TIERS, restricted to one or two entries of each tier
\* (the table has 202 entries; every entry has the same four fields).
CountryCodes ==
    { <<"U","S">>, <<"C","A">>, <<"G","B">>, <<"D","E">>, <<"B","R">>,
      <<"I","N">>, <<"N","G">> }

COUNTRY_TIERS(code) ==
    CASE code = <<"U","S">> -> [tier |-> 1, name |-> "United States", gdp_per_capita |-> 70000, data_premium |-> "high"]
      [] code = <<"C","A">> -> [tier |-> 1, name |-> "Canada", gdp_per_capita |-> 52000, data_premium |-> "high"]
      [] code = <<"G","B">> -> [tier |-> 2, name |-> "United Kingdom", gdp_per_capita |-> 46000, data_premium |-> "medium-high"]
      [] code = <<"D","E">> -> [tier |-> 2, name |-> "Germany", gdp_per_capita |-> 48000, data_premium |-> "medium-high"]
      [] code = <<"B","R">> -> [tier |-> 3, name |-> "Brazil", gdp_per_capita |-> 8800, data_premium |-> "medium"]
      [] code = <<"I","N">> -> [tier |-> 4, name |-> "India", gdp_per_capita |-> 2300, data_premium |-> "medium-low"]
      [] code = <<"N","G">> -> [tier |-> 5, name |-> "Nigeria", gdp_per_capita |-> 2100, data_premium |-> "low"]

\* Multipliers that do not discount the tiers with a bonus.
TIER_MULTIPLIERS_Uniform(tier) == Rat(10, 10)

TIER_MULTIPLIERS(tier) ==
    CASE tier = 1 -> Rat(10, 10) [] tier = 2 -> Rat(8, 10) [] tier = 3 -> Rat(6, 10)
      [] tier = 4 -> Rat(4, 10) [] tier = 5 -> Rat(3, 10)

SCARCITY_BONUSES(tier) ==
    CASE tier = 1 -> 0 [] tier = 2 -> 2 [] tier = 3 -> 5 [] tier = 4 -> 8 [] tier = 5 -> 12

PPP_ADJUSTMENTS(tier) ==
    CASE tier = 1 -> Rat(10, 10) [] tier = 2 -> Rat(11, 10) [] tier = 3 -> Rat(13, 10)
      [] tier = 4 -> Rat(18, 10) [] tier = 5 -> Rat(25, 10)

\* get_country_info raises AttributeError when the code is truthy and has
\* no upper() (country_code.upper() if country_code else 'US').
get_country_info_raises(country_code) ==
    Truthy(country_code) /\ ~IsStr(country_code)

\* A lookup that falls back to India instead of the United States.
ResolvedCountryCode_India(country_code) ==
    LET upper == IF Truthy(country_code) THEN Upper(country_code.v) ELSE <<"I","N">>
    IN  IF upper \notin CountryCodes THEN <<"I","N">> ELSE upper

\* The key looked up in the table: upper-cased, 'US' for a falsy or unknown code.
ResolvedCountryCode(country_code) ==
    LET upper == IF Truthy(country_code) THEN Upper(country_code.v) ELSE <<"U","S">>
    IN  IF upper \notin CountryCodes THEN <<"U","S">> ELSE upper

get_country_info(country_code) ==
    LET code == ResolvedCountryCode(country_code)
        country_data == COUNTRY_TIERS(code)
        tier == country_data.tier
    IN  [ country_code |-> code,
          country_name |-> country_data.name,
          tier |-> tier,
          gdp_per_capita |-> country_data.gdp_per_capita,
          data_premium |-> country_data.data_premium,
          base_multiplier |-> TIER_MULTIPLIERS(tier),
          scarcity_bonus |-> SCARCITY_BONUSES(tier),
          ppp_adjustment |-> PPP_ADJUSTMENTS(tier) ]

\* A country adjustment that also multiplies by the PPP adjustment.
calculate_country_adjusted_score_Ppp(base_score, country_code) ==
    LET country_info == get_country_info(country_code)
        adjusted_score == RAdd(RMul(RMul(base_score, country_info.base_multiplier),
                                    country_info.ppp_adjustment),
                               RInt(country_info.scarcity_bonus))
        final_score == RMin(adjusted_score, RInt(100))
    IN  [ original_score |-> base_score,
          country_multiplier |-> country_info.base_multiplier,
          scarcity_bonus |-> country_info.scarcity_bonus,
          adjusted_total |-> adjusted_score,
          final_score |-> final_score,
          vana_score |-> RMul(final_score, Rat(1, 100)),
          country_info |-> country_info ]

\* calculate_country_adjusted_score(base_score, country_code); base_score a rational.
calculate_country_adjusted_score(base_score, country_code) ==
    LET country_info == get_country_info(country_code)
        adjusted_score == RAdd(RMul(base_score, country_info.base_multiplier),
                               RInt(country_info.scarcity_bonus))
        final_score == RMin(adjusted_score, RInt(100))
        vana_score == RMul(final_score, Rat(1, 100))
    IN  [ original_score |-> base_score,
          country_multiplier |-> country_info.base_multiplier,
          scarcity_bonus |-> country_info.scarcity_bonus,
          adjusted_total |-> adjusted_score,
          final_score |-> final_score,
          vana_score |-> vana_score,
          country_info |-> country_info ]

----------------------------------------------------------------------------
(* float(x) *)

RNeg(a) == [n |-> -a.n, d |-> a.d]
RSub(a, b) == RAdd(a, RNeg(b))
RAbs(a) == [n |-> Abs(a.n), d |-> a.d]

Digits == {"0", "1", "2", "3", "4", "5", "6", "7", "8", "9"}

DigitVal(c) ==
    CASE c = "0" -> 0 [] c = "1" -> 1 [] c = "2" -> 2 [] c = "3" -> 3 [] c = "4" -> 4
      [] c = "5" -> 5 [] c = "6" -> 6 [] c = "7" -> 7 [] c = "8" -> 8 [] c = "9" -> 9

AllDigits(s) == \A i \in 1..Len(s) : s[i] \in Digits

RECURSIVE DigitsVal(_)
DigitsVal(s) ==
    IF Len(s) = 0 THEN 0 ELSE 10 * DigitsVal(SubSeq(s, 1, Len(s) - 1)) + DigitVal(s[Len(s)])

\* Position of the first "." of s, or Len(s) + 1 when there is none.
DotPos(s) ==
    IF \E i \in 1..Len(s) : s[i] = "."
    THEN CHOOSE i \in 1..Len(s) : s[i] = "." /\ \A j \in 1..(i - 1) : s[j] # "."
    ELSE Len(s) + 1

Unsigned(s) == IF Len(s) > 0 /\ s[1] \in {"-", "+"} THEN SubSeq(s, 2, Len(s)) ELSE s
IntPart(s) == SubSeq(Unsigned(s), 1, DotPos(Unsigned(s)) - 1)
FracPart(s) == SubSeq(Unsigned(s), DotPos(Unsigned(s)) + 1, Len(Unsigned(s)))

\* The strings float() parses, among plain decimal literals: [sign] digits [. digits]
\* with at least one digit (exponent, inf/nan and padded forms are not
\* among the model's inputs).
IsDecimalLiteral(s) ==
    /\ AllDigits(IntPart(s))
    /\ AllDigits(FracPart(s))
    /\ Len(IntPart(s)) + Len(FracPart(s)) > 0

\* The value of a decimal literal in thousandths (at most three fraction
\* digits are read).
DecimalValue(s) ==
    LET f == FracPart(s)
        f3 == [i \in 1..3 |-> IF i <= Len(f) THEN f[i] ELSE "0"]
        mag == DigitsVal(IntPart(s)) * Unit + DigitsVal(f3)
    IN  IF Len(s) > 0 /\ s[1] = "-" THEN -mag ELSE mag

\* float(x) raises TypeError for None, a list or a dict and ValueError for a
\* string that is no number.
float_raises(x) ==
    CASE x.t = "num" -> FALSE
      [] x.t = "bool" -> FALSE
      [] x.t = "str" -> ~IsDecimalLiteral(x.v)
      [] OTHER -> TRUE

\* float(x) in thousandths, where it does not raise.
float(x) ==
    CASE x.t = "num" -> x.v
      [] x.t = "bool" -> IF x.v THEN Unit ELSE 0
      [] x.t = "str" -> DecimalValue(x.v)

----------------------------------------------------------------------------
(* validators/completeness.py *)

tier1_fields ==
    << <<"statement_metadata", "record_id">>,
       <<"statement_metadata", "statement_date">>,
       <<"statement_metadata", "statement_period", "start_date">>,
       <<"statement_metadata", "statement_period", "end_date">>,
       <<"financial_summary", "previous_balance">>,
       <<"financial_summary", "closing_balance">>,
       <<"financial_summary", "purchases">>,
       <<"financial_summary", "payments_credits">>,
       <<"transactions">> >>

tier2_fields ==
    << <<"account_info", "card_brand">>,
       <<"account_info", "credit_limit">>,
       <<"financial_summary", "fees_charged">>,
       <<"financial_summary", "interest_charged">>,
       <<"financial_summary", "available_credit">> >>

tier3_fields ==
    << <<"spending_patterns", "total_transactions">>,
       <<"spending_patterns", "average_transaction_amount">>,
       <<"risk_metrics", "credit_utilization_ratio">>,
       <<"engineered_features", "spending_trend">>,
       <<"engineered_features", "merchant_diversity_score">> >>

\* The loop of has_field from key i on: [found, current].
RECURSIVE WalkPath(_, _, _)
WalkPath(current, keys, i) ==
    IF i > Len(keys) THEN [found |-> TRUE, current |-> current]
    ELSE IF ~IsDict(current) \/ ~HasKey(current, keys[i])
         THEN [found |-> FALSE, current |-> current]
         ELSE WalkPath(current.v[keys[i]], keys, i + 1)

\* A presence test that wants a truthy leaf.
has_field_Truthy(data, field_path) ==
    LET w == WalkPath(data, field_path, 1)
    IN  IF ~w.found THEN FALSE
        ELSE IF field_path = <<"transactions">>
             THEN IsList(w.current) /\ Len(w.current.v) > 0
             ELSE Truthy(w.current)

has_field(data, field_path) ==
    LET w == WalkPath(data, field_path, 1)
    IN  IF ~w.found THEN FALSE
        ELSE IF field_path = <<"transactions">>
             THEN IsList(w.current) /\ Len(w.current.v) > 0
             ELSE ~IsNull(w.current)

\* An is_complete that wants more than 0.8.
IsComplete_Strict(overall_score) == RCmp(overall_score.val, Rat(8, 10)) > 0

\* overall_score >= 0.8
IsComplete(overall_score) == GeRounded(RCmp(overall_score.val, Rat(8, 10)), overall_score.err)

calculate_tier_score(data, fields) ==
    IF Len(fields) = 0 THEN RInt(1)
    ELSE LET present_count == Cardinality({i \in 1..Len(fields) : has_field(data, fields[i])})
         IN  Rat(present_count, Len(fields))

get_missing_fields(data, fields) ==
    LET Missing(field_path) == ~has_field(data, field_path)
    IN  SelectSeq(fields, Missing)

\* calculate_completeness_score(data); rounding is the sign of the rounding
\* error of the float sum overall_score.
calculate_completeness_score(data, rounding) ==
    LET tier1_score == calculate_tier_score(data, tier1_fields)
        tier2_score == calculate_tier_score(data, tier2_fields)
        tier3_score == calculate_tier_score(data, tier3_fields)
        overall_score == Fl(RAdd(RAdd(RMul(Rat(60, 100), tier1_score),
                                      RMul(Rat(25, 100), tier2_score)),
                                 RMul(Rat(15, 100), tier3_score)),
                            rounding)
    IN  [ completeness_score |-> overall_score,
          tier1_score |-> tier1_score,
          tier2_score |-> tier2_score,
          tier3_score |-> tier3_score,
          is_complete |-> IsComplete(overall_score),
          missing_tier1 |-> get_missing_fields(data, tier1_fields),
          missing_tier2 |-> get_missing_fields(data, tier2_fields),
          missing_tier3 |-> get_missing_fields(data, tier3_fields) ]

----------------------------------------------------------------------------
(* validators/financial.py *)

\* The six summary fields read with float(financial.get(key, 0)).
SummaryKeys ==
    <<"previous_balance", "purchases", "payments_credits", "fees_charged",
      "interest_charged", "closing_balance">>

\* float(d.get(key, 0)) and whether it raises.
FloatField(d, key) == float(Get(d, key, Num(0)))
FloatFieldRaises(d, key) == float_raises(Get(d, key, Num(0)))

\* validate_financial_integrity raises when the record or a section it reads
\* with .get is no dict or a value it passes to float() is no number.
validate_financial_integrity_raises(data) ==
    LET financial == Get(data, "financial_summary", EmptyDict)
        account_info == Get(data, "account_info", EmptyDict)
        risk_metrics == Get(data, "risk_metrics", EmptyDict)
    IN  \/ ~IsDict(data)
        \/ ~IsDict(financial)
        \/ \E i \in 1..Len(SummaryKeys) : FloatFieldRaises(financial, SummaryKeys[i])
        \/ ~IsDict(account_info)
        \/ FloatFieldRaises(account_info, "credit_limit")
        \/ ~IsDict(risk_metrics)
        \/ FloatFieldRaises(risk_metrics, "credit_utilization_ratio")

\* expected_closing = previous + purchases + fees + interest - payments
ExpectedClosing(previous, purchases, payments, fees, interest) ==
    previous + purchases + fees + interest - payments

\* A balance score whose first breakpoint is 0.10 instead of 0.01.
BalanceScore_Loose(balance_diff) ==
    IF LeRounded(Sign(balance_diff.val - 100), balance_diff.err) THEN Rat(10, 10)
    ELSE IF LeRounded(Sign(balance_diff.val - 1000), balance_diff.err) THEN Rat(7, 10)
    ELSE Rat(0, 10)

\* The if/elif chain on balance_diff (in thousandths): 0.01, 0.10, 1.00.
BalanceScore(balance_diff) ==
    IF LeRounded(Sign(balance_diff.val - 10), balance_diff.err) THEN Rat(10, 10)
    ELSE IF LeRounded(Sign(balance_diff.val - 100), balance_diff.err) THEN Rat(9, 10)
    ELSE IF LeRounded(Sign(balance_diff.val - 1000), balance_diff.err) THEN Rat(7, 10)
    ELSE Rat(0, 10)

\* A utilization branch that gives full marks without a positive credit limit.
UtilizationScore_FullDefault(closing, credit_limit, utilization, err) ==
    IF credit_limit > 0
    THEN LET utilization_diff == RAbs(RSub(Rat(closing, credit_limit), Rat(utilization, Unit)))
         IN  IF LeRounded(RCmp(utilization_diff, Rat(5, 100)), err) THEN Rat(10, 10) ELSE Rat(5, 10)
    ELSE Rat(10, 10)

\* The utilization branch: 0.8 without a positive credit limit, else 1.0 or
\* 0.5; err is the sign of the rounding error of utilization_diff.
UtilizationScore(closing, credit_limit, utilization, err) ==
    IF credit_limit > 0
    THEN LET expected_utilization == Rat(closing, credit_limit)
             utilization_diff == RAbs(RSub(expected_utilization, Rat(utilization, Unit)))
         IN  IF LeRounded(RCmp(utilization_diff, Rat(5, 100)), err) THEN Rat(10, 10) ELSE Rat(5, 10)
    ELSE Rat(8, 10)

\* A number in thousandths that a float holds exactly, so sums and
\* differences of such numbers carry no rounding error: a whole number.
IsExact(n) == n % Unit = 0

\* The signs the rounding errors of balance_diff and utilization_diff can have.
FinancialRoundings(data) ==
    LET financial == Get(data, "financial_summary", EmptyDict)
        closing == FloatField(financial, "closing_balance")
        credit_limit == FloatField(Get(data, "account_info", EmptyDict), "credit_limit")
        utilization == FloatField(Get(data, "risk_metrics", EmptyDict), "credit_utilization_ratio")
    IN  [ balance : IF \A i \in 1..Len(SummaryKeys) : IsExact(FloatField(financial, SummaryKeys[i]))
                    THEN {0} ELSE RoundingSigns,
          utilization : IF credit_limit <= 0 \/ (closing % credit_limit = 0 /\ IsExact(utilization))
                        THEN {0} ELSE RoundingSigns ]

\* validate_financial_integrity(data); rounding gives the signs of the
\* rounding errors of the two float differences.
validate_financial_integrity(data, rounding) ==
    LET financial == Get(data, "financial_summary", EmptyDict)
        previous == FloatField(financial, "previous_balance")
        purchases == FloatField(financial, "purchases")
        payments == FloatField(financial, "payments_credits")
        fees == FloatField(financial, "fees_charged")
        interest == FloatField(financial, "interest_charged")
        closing == FloatField(financial, "closing_balance")
        expected_closing == ExpectedClosing(previous, purchases, payments, fees, interest)
        balance_diff == Fl(Abs(expected_closing - closing), rounding.balance)
        balance_score == BalanceScore(balance_diff)
        credit_limit == FloatField(Get(data, "account_info", EmptyDict), "credit_limit")
        utilization == FloatField(Get(data, "risk_metrics", EmptyDict), "credit_utilization_ratio")
        utilization_score == UtilizationScore(closing, credit_limit, utilization, rounding.utilization)
    IN  [ balance_score |-> balance_score,
          utilization_score |-> utilization_score,
          is_valid |-> RLe(Rat(7, 10), balance_score) /\ RLe(Rat(5, 10), utilization_score),
          balance_difference |-> balance_diff,
          expected_closing |-> expected_closing,
          actual_closing |-> closing ]

\* t.get('transaction_type', '').upper() == kind
TypeIs(t, kind) == Upper(Get(t, "transaction_type", EmptyStr).v) = kind

PurchaseType == <<"P","U","R","C","H","A","S","E">>
PaymentType == <<"P","A","Y","M","E","N","T">>
FeeType == <<"F","E","E">>

\* float(t.get('amount', 0))
TxnAmount(t) == float(Get(t, "amount", Num(0)))

\* The terms the three sums take from transaction t: its amount as a
\* purchase, as a payment and as a fee (PaymentTerm_AnySign: a payment term
\* that also takes the payments entered with a positive amount).
PurchaseTerm(t) == IF TypeIs(t, PurchaseType) /\ TxnAmount(t) > 0 THEN TxnAmount(t) ELSE 0
PaymentTerm_AnySign(t) == IF TypeIs(t, PaymentType) THEN Abs(TxnAmount(t)) ELSE 0
PaymentTerm(t) == IF TypeIs(t, PaymentType) /\ TxnAmount(t) < 0 THEN Abs(TxnAmount(t)) ELSE 0
FeeTerm(t) == IF TypeIs(t, FeeType) THEN TxnAmount(t) ELSE 0

\* sum(term(t) for t in transactions), from transaction i on.
RECURSIVE SumPurchases(_, _)
SumPurchases(transactions, i) ==
    IF i > Len(transactions) THEN 0
    ELSE PurchaseTerm(transactions[i]) + SumPurchases(transactions, i + 1)

RECURSIVE SumPayments(_, _)
SumPayments(transactions, i) ==
    IF i > Len(transactions) THEN 0
    ELSE PaymentTerm(transactions[i]) + SumPayments(transactions, i + 1)

RECURSIVE SumFees(_, _)
SumFees(transactions, i) ==
    IF i > Len(transactions) THEN 0
    ELSE FeeTerm(transactions[i]) + SumFees(transactions, i + 1)

\* A transaction makes the sums raise: it is no dict, its type has no
\* upper(), or its type is one a sum reads the amount of and float() rejects
\* the amount.
ConsistencyTxnRaises(t) ==
    IF ~IsDict(t) THEN TRUE
    ELSE IF ~IsStr(Get(t, "transaction_type", EmptyStr)) THEN TRUE
    ELSE /\ TypeIs(t, PurchaseType) \/ TypeIs(t, PaymentType) \/ TypeIs(t, FeeType)
         /\ float_raises(Get(t, "amount", Num(0)))

validate_transaction_consistency_raises(data) ==
    IF ~IsDict(data) THEN TRUE
    ELSE LET transactions == Get(data, "transactions", List(<<>>))
             financial == Get(data, "financial_summary", EmptyDict)
         IN  IF ~Truthy(transactions) THEN FALSE
             ELSE \/ ~IsList(transactions)
                  \/ \E i \in 1..Len(transactions.v) : ConsistencyTxnRaises(transactions.v[i])
                  \/ ~IsDict(financial)
                  \/ FloatFieldRaises(financial, "purchases")
                  \/ FloatFieldRaises(financial, "payments_credits")
                  \/ FloatFieldRaises(financial, "fees_charged")

\* abs(calculated - summary) <= tolerance, tolerance = 0.02; err is the sign
\* of the rounding error of the float difference.
WithinTolerance(calculated, summary, err) ==
    LeRounded(Sign(Abs(calculated - summary) - 20), err)

\* The signs the rounding errors of the three differences can have: none
\* when every amount and the summary value are whole numbers.
ConsistencyRoundings(data) ==
    LET listed == Get(data, "transactions", List(<<>>))
        transactions == IF Truthy(listed) THEN listed.v ELSE <<>>
        financial == Get(data, "financial_summary", EmptyDict)
        Whole(key) == /\ IsExact(FloatField(financial, key))
                      /\ \A i \in 1..Len(transactions) :
                            ConsistencyTxnRaises(transactions[i]) \/ IsExact(FeeTerm(transactions[i])
                                + PurchaseTerm(transactions[i]) + PaymentTerm(transactions[i]))
        Signs(key) == IF ~Truthy(listed) \/ Whole(key) THEN {0} ELSE RoundingSigns
    IN  [ purchases : Signs("purchases"), payments : Signs("payments_credits"),
          fees : Signs("fees_charged") ]

\* sum([purchase_match, payment_match, fee_match])
MatchCount(purchase_match, payment_match, fee_match) ==
    (IF purchase_match THEN 1 ELSE 0) + (IF payment_match THEN 1 ELSE 0)
        + (IF fee_match THEN 1 ELSE 0)

\* A verdict that accepts two matches of three.
ConsistencyIsValid_TwoOfThree(consistency_score) == RLe(Rat(6, 10), consistency_score)

\* consistency_score >= 0.8
ConsistencyIsValid(consistency_score) == RLe(Rat(8, 10), consistency_score)

\* validate_transaction_consistency(data); rounding gives the signs of the
\* rounding errors of the three float differences.
validate_transaction_consistency(data, rounding) ==
    LET transactions == Get(data, "transactions", List(<<>>))
        financial == Get(data, "financial_summary", EmptyDict)
    IN  IF ~Truthy(transactions)
        THEN [consistency_score |-> RInt(0), is_valid |-> FALSE]
        ELSE LET calculated_purchases == SumPurchases(transactions.v, 1)
                 calculated_payments == SumPayments(transactions.v, 1)
                 calculated_fees == SumFees(transactions.v, 1)
                 summary_purchases == FloatField(financial, "purchases")
                 summary_payments == FloatField(financial, "payments_credits")
                 summary_fees == FloatField(financial, "fees_charged")
                 purchase_match == WithinTolerance(calculated_purchases, summary_purchases, rounding.purchases)
                 payment_match == WithinTolerance(calculated_payments, summary_payments, rounding.payments)
                 fee_match == IF summary_fees > 0
                              THEN WithinTolerance(calculated_fees, summary_fees, rounding.fees)
                              ELSE TRUE
                 consistency_score == Rat(MatchCount(purchase_match, payment_match, fee_match), 3)
             IN  [ consistency_score |-> consistency_score,
                   is_valid |-> ConsistencyIsValid(consistency_score),
                   purchase_match |-> purchase_match,
                   payment_match |-> payment_match,
                   fee_match |-> fee_match,
                   calculated_totals |-> [purchases |-> calculated_purchases,
                                          payments |-> calculated_payments,
                                          fees |-> calculated_fees],
                   summary_totals |-> [purchases |-> summary_purchases,
                                       payments |-> summary_payments,
                                       fees |-> summary_fees] ]

----------------------------------------------------------------------------
(* Python string and re operations on character sequences *)

LowerLetters ==
    {"a", "b", "c", "d", "e", "f", "g", "h", "i", "j", "k", "l", "m",
     "n", "o", "p", "q", "r", "s", "t", "u", "v", "w", "x", "y", "z"}
UpperLetters == {UpperChar(c) : c \in LowerLetters}
Letters == LowerLetters \cup UpperLetters
WordChars == Letters \cup Digits \cup {"_"}
Whitespace == {" "}

\* Membership of a character in a character class of the patterns used.
InClass(c, cls) ==
    CASE cls = "d" -> c \in Digits                                   \* \d
      [] cls = "w" -> c \in WordChars                                \* \w
      [] cls = "s-" -> c \in Whitespace \cup {"-"}                   \* [\s-]
      [] cls = "-." -> c \in {"-", "."}                              \* [-.]
      [] cls = "local" -> c \in Letters \cup Digits \cup {".", "_", "%", "+", "-"}
      [] cls = "domain" -> c \in Letters \cup Digits \cup {".", "-"}
      [] cls = "tld" -> c \in Letters \cup {"|"}                     \* [A-Z|a-z]
      [] OTHER -> c = cls                                            \* a literal

\* Pattern items: [cls, lo, hi] matches lo..hi characters of the class,
\* greedily; hi = -1 is unbounded; cls = "\\b" is the word boundary.
Item(cls, lo, hi) == [cls |-> cls, lo |-> lo, hi |-> hi]
Boundary == Item("\\b", 0, 0)

IsWordAt(s, i) == i >= 1 /\ i <= Len(s) /\ s[i] \in WordChars
AtBoundary(s, i) == IsWordAt(s, i - 1) # IsWordAt(s, i)

\* Number of consecutive characters of class cls from position i, at most max
\* (max = -1: no limit).
RECURSIVE RunLength(_, _, _, _)
RunLength(s, i, cls, max) ==
    IF max = 0 \/ i > Len(s) \/ ~InClass(s[i], cls) THEN 0
    ELSE 1 + RunLength(s, i + 1, cls, IF max = -1 THEN -1 ELSE max - 1)

\* The backtracking match of pattern items j.. at position i: the position
\* after the match, or -1 when there is none.
RECURSIVE MatchFrom(_, _, _, _)
RECURSIVE TryCounts(_, _, _, _, _)
MatchFrom(s, i, pat, j) ==
    IF j > Len(pat) THEN i
    ELSE IF pat[j].cls = "\\b"
         THEN IF AtBoundary(s, i) THEN MatchFrom(s, i, pat, j + 1) ELSE -1
         ELSE TryCounts(s, i, pat, j, RunLength(s, i, pat[j].cls, pat[j].hi))
TryCounts(s, i, pat, j, k) ==
    IF k < pat[j].lo THEN -1
    ELSE LET r == MatchFrom(s, i + k, pat, j + 1)
         IN  IF r # -1 THEN r ELSE TryCounts(s, i, pat, j, k - 1)

\* re.search(pattern, s) is not None
Search(pat, s) == \E i \in 1..(Len(s) + 1) : MatchFrom(s, i, pat, 1) # -1

\* re.sub(pattern, '', s) from position i on (the patterns match no empty string).
RECURSIVE SubFrom(_, _, _)
SubFrom(pat, s, i) ==
    IF i > Len(s) THEN <<>>
    ELSE LET e == MatchFrom(s, i, pat, 1)
         IN  IF e > i THEN SubFrom(pat, s, e) ELSE <<s[i]>> \o SubFrom(pat, s, i + 1)
Sub(pat, s) == SubFrom(pat, s, 1)

StartsWithAt(s, i, lit) ==
    /\ i + Len(lit) - 1 <= Len(s)
    /\ \A k \in 1..Len(lit) : s[i + k - 1] = lit[k]

\* s.replace(lit, '') from position i on.
RECURSIVE RemoveFrom(_, _, _)
RemoveFrom(s, lit, i) ==
    IF i > Len(s) THEN <<>>
    ELSE IF StartsWithAt(s, i, lit) THEN RemoveFrom(s, lit, i + Len(lit))
         ELSE <<s[i]>> \o RemoveFrom(s, lit, i + 1)
Remove(s, lit) == RemoveFrom(s, lit, 1)

\* s.strip()
RECURSIVE LStrip(_)
LStrip(s) == IF Len(s) > 0 /\ s[1] \in Whitespace THEN LStrip(Tail(s)) ELSE s
RECURSIVE RStrip(_)
RStrip(s) ==
    IF Len(s) > 0 /\ s[Len(s)] \in Whitespace THEN RStrip(SubSeq(s, 1, Len(s) - 1)) ELSE s
Strip(s) == RStrip(LStrip(s))

\* s.split(): the maximal runs of non-whitespace characters.
RECURSIVE WordEnd(_, _)
WordEnd(s, i) == IF i > Len(s) \/ s[i] \in Whitespace THEN i - 1 ELSE WordEnd(s, i + 1)
RECURSIVE SplitFrom(_, _)
SplitFrom(s, i) ==
    IF i > Len(s) THEN <<>>
    ELSE IF s[i] \in Whitespace THEN SplitFrom(s, i + 1)
         ELSE <<SubSeq(s, i, WordEnd(s, i))>> \o SplitFrom(s, WordEnd(s, i) + 1)
Split(s) == SplitFrom(s, 1)

\* s[:n]
Prefix(s, n) == SubSeq(s, 1, IF Len(s) < n THEN Len(s) ELSE n)

----------------------------------------------------------------------------
(* datetime.fromisoformat on the forms YYYY-MM-DD, YYYY-MM-DDT00:00:00 and *)
(* YYYY-MM-DDT00:00:00+00:00 (other ISO forms are not among the inputs)    *)

MidnightSuffix == <<"T", "0", "0", ":", "0", "0", ":", "0", "0">>
UtcSuffix == <<"+", "0", "0", ":", "0", "0">>

\* t.get('date', '').replace('Z', '+00:00')
RECURSIVE ReplaceZ(_)
ReplaceZ(s) ==
    IF Len(s) = 0 THEN <<>>
    ELSE (IF s[1] = "Z" THEN UtcSuffix ELSE <<s[1]>>) \o ReplaceZ(Tail(s))

IsLeap(y) == (y % 4 = 0 /\ y % 100 # 0) \/ y % 400 = 0

DaysInMonth(y, m) ==
    CASE m \in {1, 3, 5, 7, 8, 10, 12} -> 31
      [] m \in {4, 6, 9, 11} -> 30
      [] m = 2 -> IF IsLeap(y) THEN 29 ELSE 28

RECURSIVE DaysBeforeMonth(_, _)
DaysBeforeMonth(y, m) == IF m = 1 THEN 0 ELSE DaysBeforeMonth(y, m - 1) + DaysInMonth(y, m - 1)

\* date.toordinal()
Ordinal(y, m, d) ==
    LET p == y - 1
    IN  p * 365 + (p \div 4) - (p \div 100) + (p \div 400) + DaysBeforeMonth(y, m) + d

DateYear(s) == DigitsVal(SubSeq(s, 1, 4))
DateMonth(s) == DigitsVal(SubSeq(s, 6, 7))
DateDay(s) == DigitsVal(SubSeq(s, 9, 10))

IsIsoDate(s) ==
    /\ Len(s) = 10
    /\ AllDigits(SubSeq(s, 1, 4)) /\ s[5] = "-"
    /\ AllDigits(SubSeq(s, 6, 7)) /\ s[8] = "-"
    /\ AllDigits(SubSeq(s, 9, 10))
    /\ DateYear(s) >= 1
    /\ DateMonth(s) \in 1..12
    /\ DateDay(s) >= 1 /\ DateDay(s) <= DaysInMonth(DateYear(s), DateMonth(s))

\* fromisoformat raises ValueError unless the string has one of the three forms.
IsIsoDateTime(s) ==
    /\ Len(s) >= 10
    /\ IsIsoDate(SubSeq(s, 1, 10))
    /\ SubSeq(s, 11, Len(s)) \in {<<>>, MidnightSuffix, MidnightSuffix \o UtcSuffix}

\* The parsed datetime: its day number and whether it is timezone-aware.
ParseIso(s) ==
    [ day |-> Ordinal(DateYear(s), DateMonth(s), DateDay(s)),
      aware |-> Len(s) > Len(MidnightSuffix) + 10 ]

----------------------------------------------------------------------------
(* validators/scoring.py *)

\* data.get('transactions', [])
Transactions(data) == Get(data, "transactions", List(<<>>))

\* len(x) raises TypeError for None, a number or a bool.
len_raises(x) == x.t \in {"null", "num", "bool"}
len(x) == IF x.t = "dict" THEN Cardinality(DOMAIN x.v) ELSE Len(x.v)

\* The transactions the loops iterate over (a list's elements).
Txns(data) == Transactions(data).v

\* A volume score whose top breakpoint pays 52 points instead of 25.
calculate_transaction_volume_score_Typo(data) ==
    LET count == len(Transactions(data))
    IN  IF count >= 50 THEN 52
        ELSE IF count >= 30 THEN 22
        ELSE IF count >= 20 THEN 18
        ELSE IF count >= 10 THEN 12
        ELSE IF count >= 5 THEN 6
        ELSE IF count >= 1 THEN 2
        ELSE 0

\* A volume scorer with the points of the 20 and the 30 breakpoints exchanged.
calculate_transaction_volume_score_Swapped(data) ==
    LET count == len(Transactions(data))
    IN  IF count >= 50 THEN 25
        ELSE IF count >= 30 THEN 18
        ELSE IF count >= 20 THEN 22
        ELSE IF count >= 10 THEN 12
        ELSE IF count >= 5 THEN 6
        ELSE IF count >= 1 THEN 2
        ELSE 0

calculate_transaction_volume_score(data) ==
    LET count == len(Transactions(data))
    IN  IF count >= 50 THEN 25
        ELSE IF count >= 30 THEN 22
        ELSE IF count >= 20 THEN 18
        ELSE IF count >= 10 THEN 12
        ELSE IF count >= 5 THEN 6
        ELSE IF count >= 1 THEN 2
        ELSE 0

prefixes_to_remove ==
    << <<"D", "E", "B", "I", "T", " ", "C", "A", "R", "D", " ", "P", "U", "R", "C", "H", "A", "S", "E", " ">>,
       <<"O", "N", "L", "I", "N", "E", " ", "P", "A", "Y", "M", "E", "N", "T", " ">>,
       <<"R", "E", "C", "U", "R", "R", "I", "N", "G", " ", "P", "A", "Y", "M", "E", "N", "T", " ">>,
       <<"A", "T", "M", " ", "W", "I", "T", "H", "D", "R", "A", "W", "A", "L", " ">>,
       <<"C", "H", "E", "C", "K", " ", "C", "A", "R", "D", " ", "P", "U", "R", "C", "H", "A", "S", "E", " ">> >>

RECURSIVE RemovePrefixes(_, _)
RemovePrefixes(cleaned, i) ==
    IF i > Len(prefixes_to_remove) THEN cleaned
    ELSE RemovePrefixes(Remove(cleaned, prefixes_to_remove[i]), i + 1)

\* r'\*\w+\d+' and r'\d{6,}'
TransactionIdPattern == <<Item("*", 1, 1), Item("w", 1, -1), Item("d", 1, -1)>>
LongNumberPattern == <<Item("d", 6, -1)>>

clean_bank_description(description) ==
    Strip(Sub(LongNumberPattern, Sub(TransactionIdPattern, RemovePrefixes(description, 1))))

\* extract_merchant_key: <<>> stands for None (both fail the caller's
\* `merchant_key and len(merchant_key) >= 3`).
extract_merchant_key(cleaned_description) ==
    LET words == Split(cleaned_description)
    IN  IF Len(cleaned_description) < 3 THEN <<>>
        ELSE IF Len(words) = 0 THEN <<>>
        ELSE IF Len(words) = 1 THEN Prefix(words[1], 15)
        ELSE Prefix(words[1] \o <<" ">> \o words[2], 15)

MerchantKey(transaction) ==
    extract_merchant_key(clean_bank_description(Upper(Get(transaction, "description", EmptyStr).v)))

extract_unique_merchants_from_descriptions(transactions) ==
    LET keys == {MerchantKey(transactions[i]) : i \in 1..Len(transactions)}
    IN  Cardinality({merchant_key \in keys : Len(merchant_key) >= 3})

\* round(amt, 2) of a non-negative amount in thousandths (a tie, ....5, goes to
\* the even hundredth; the model's amounts have no ties).
Round2(n) ==
    LET r == n % 10
    IN  IF r < 5 THEN n - r
        ELSE IF r > 5 THEN n - r + 10
        ELSE IF ((n - r) \div 10) % 2 = 0 THEN n - r ELSE n - r + 10

\* abs(float(t.get('amount', 0)))
AbsAmount(t) == Abs(float(Get(t, "amount", Num(0))))

\* The date of transaction t after .replace('Z', '+00:00').
DateString(t) == ReplaceZ(Get(t, "date", EmptyStr).v)

\* The transactions whose date is truthy (`if t.get('date')`).
Dated(transactions) ==
    SelectSeq(transactions, LAMBDA t : Truthy(Get(t, "date", EmptyStr)))

\* What building the list `dates` ends with: "ok", or the first exception in
\* list order: "AttributeError" (a truthy date with no replace()) or
\* "ValueError" (a string fromisoformat rejects).
RECURSIVE DatesOutcome(_, _)
DatesOutcome(dated, i) ==
    IF i > Len(dated) THEN "ok"
    ELSE IF ~IsStr(Get(dated[i], "date", EmptyStr)) THEN "AttributeError"
    ELSE IF ~IsIsoDateTime(DateString(dated[i])) THEN "ValueError"
    ELSE DatesOutcome(dated, i + 1)

\* The try block of calculate_transaction_diversity_score (ValueError and
\* TypeError give 0; max()/min() raise TypeError on naive and aware mixed).
DateConsistencyScore(transactions) ==
    LET dated == Dated(transactions)
        dates == [i \in 1..Len(dated) |-> ParseIso(DateString(dated[i]))]
        days == {dates[i].day : i \in 1..Len(dated)}
        max == CHOOSE x \in days : \A y \in days : y <= x
        min == CHOOSE x \in days : \A y \in days : x <= y
    IN  IF DatesOutcome(dated, 1) # "ok" THEN RInt(0)
        ELSE IF Len(dated) > 1
             THEN IF \E i, j \in 1..Len(dated) : dates[i].aware # dates[j].aware
                  THEN RInt(0)
                  ELSE RMin(Rat(max - min, 30), RInt(1))
             ELSE RInt(0)

calculate_transaction_diversity_score(data) ==
    LET transactions == Txns(data)
        unique_merchants == extract_unique_merchants_from_descriptions(transactions)
        diversity_ratio == Rat(unique_merchants, Len(transactions))
        unique_amounts == Cardinality({Round2(AbsAmount(transactions[i])) : i \in 1..Len(transactions)})
        amount_variety_score == RMin(Rat(unique_amounts, 10), RInt(1))
        date_consistency_score == DateConsistencyScore(transactions)
        diversity_score == RAdd(RAdd(RMul(diversity_ratio, RInt(8)),
                                     RMul(amount_variety_score, RInt(7))),
                                RMul(date_consistency_score, RInt(5)))
    IN  IF ~Truthy(Transactions(data)) THEN RInt(0)
        ELSE RMin(RInt(20), diversity_score)

\* A scorer that counts the transactions without detail against the record.
calculate_transaction_detail_score_Penalised(data) ==
    LET transactions == Txns(data)
        n == Len(transactions)
        detailed_txns == Cardinality({i \in 1..n : len(Get(transactions[i], "description", EmptyStr)) > 20})
        realistic_amounts == Cardinality({i \in 1..n : /\ 1 * Unit <= AbsAmount(transactions[i])
                                                       /\ AbsAmount(transactions[i]) <= 5000 * Unit})
    IN  IF ~Truthy(Transactions(data)) THEN RInt(0)
        ELSE RAdd(RMul(Rat(2 * detailed_txns - n, n), RInt(10)),
                  RMul(Rat(2 * realistic_amounts - n, n), RInt(5)))

calculate_transaction_detail_score(data) ==
    LET transactions == Txns(data)
        n == Len(transactions)
        detailed_txns == Cardinality({i \in 1..n : len(Get(transactions[i], "description", EmptyStr)) > 20})
        description_score == RMul(Rat(detailed_txns, n), RInt(10))
        realistic_amounts == Cardinality({i \in 1..n : /\ 1 * Unit <= AbsAmount(transactions[i])
                                                       /\ AbsAmount(transactions[i]) <= 5000 * Unit})
        realism_score == RMul(Rat(realistic_amounts, n), RInt(5))
    IN  IF ~Truthy(Transactions(data)) THEN RInt(0)
        ELSE RAdd(description_score, realism_score)

\* min(a, b) on integers
Min(a, b) == IF a <= b THEN a ELSE b

\* A scorer that reads the period from the nested statement_period as well.
calculate_core_statement_score_NestedPeriod(data) ==
    LET statement_metadata == Get(data, "statement_metadata", EmptyDict)
        account_info == Get(data, "account_info", EmptyDict)
        statement_period == Get(statement_metadata, "statement_period", EmptyDict)
        score == (IF Truthy(Get(statement_metadata, "statement_date", Null)) THEN 5 ELSE 0)
               + (IF Truthy(Get(account_info, "account_number_masked", Null)) THEN 5 ELSE 0)
               + (IF Truthy(Get(account_info, "credit_limit", Null)) THEN 5 ELSE 0)
               + (IF len(Transactions(data)) > 0 THEN 5 ELSE 0)
               + (IF \/ /\ Truthy(Get(statement_metadata, "statement_period_start", Null))
                        /\ Truthy(Get(statement_metadata, "statement_period_end", Null))
                     \/ /\ IsDict(statement_period)
                        /\ Truthy(Get(statement_period, "start_date", Null))
                        /\ Truthy(Get(statement_period, "end_date", Null))
                  THEN 3 ELSE 0)
               + (IF ~IsNull(Get(account_info, "current_balance", Null)) THEN 2 ELSE 0)
    IN  Min(score, 25)

calculate_core_statement_score(data) ==
    LET statement_metadata == Get(data, "statement_metadata", EmptyDict)
        account_info == Get(data, "account_info", EmptyDict)
        score == (IF Truthy(Get(statement_metadata, "statement_date", Null)) THEN 5 ELSE 0)
               + (IF Truthy(Get(account_info, "account_number_masked", Null)) THEN 5 ELSE 0)
               + (IF Truthy(Get(account_info, "credit_limit", Null)) THEN 5 ELSE 0)
               + (IF len(Transactions(data)) > 0 THEN 5 ELSE 0)
               + (IF /\ Truthy(Get(statement_metadata, "statement_period_start", Null))
                     /\ Truthy(Get(statement_metadata, "statement_period_end", Null))
                  THEN 3 ELSE 0)
               + (IF ~IsNull(Get(account_info, "current_balance", Null)) THEN 2 ELSE 0)
    IN  Min(score, 25)

calculate_account_completeness_score(data) ==
    LET account_info == Get(data, "account_info", EmptyDict)
        score == (IF Truthy(Get(account_info, "card_brand", Null)) THEN 3 ELSE 0)
               + (IF Truthy(Get(account_info, "card_type", Null)) THEN 2 ELSE 0)
               + (IF Truthy(Get(account_info, "credit_limit", Null)) THEN 3 ELSE 0)
               + (IF Truthy(Get(account_info, "available_credit", Null)) THEN 2 ELSE 0)
    IN  Min(score, 10)

\* A scorer that gives nothing when the current balance is missing.
calculate_financial_consistency_score_FromZero(data) ==
    LET account_info == Get(data, "account_info", EmptyDict)
    IN  IF /\ ~IsNull(Get(account_info, "current_balance", Null))
           /\ ~IsNull(Get(account_info, "credit_limit", Null))
        THEN 5
        ELSE IF ~IsNull(Get(account_info, "current_balance", Null)) THEN 3
        ELSE 0

calculate_financial_consistency_score(data) ==
    LET account_info == Get(data, "account_info", EmptyDict)
    IN  IF /\ ~IsNull(Get(account_info, "current_balance", Null))
           /\ ~IsNull(Get(account_info, "credit_limit", Null))
        THEN 5
        ELSE IF ~IsNull(Get(account_info, "current_balance", Null)) THEN 3
        ELSE 1

\* A transaction makes the loops of the diversity and detail scores raise:
\* it is no dict (no .get), its description is no string (no .upper()) or
\* its amount is rejected by float().
TransactionRaises(t) ==
    IF ~IsDict(t) THEN TRUE
    ELSE \/ ~IsStr(Get(t, "description", EmptyStr))
         \/ float_raises(Get(t, "amount", Num(0)))

\* calculate_credit_statement_score lets an exception escape (it catches
\* none but the ValueError/TypeError of the date block).
calculate_credit_statement_score_raises(data) ==
    LET statement_metadata == Get(data, "statement_metadata", EmptyDict)
        account_info == Get(data, "account_info", EmptyDict)
        transactions == Transactions(data)
    IN  IF ~IsDict(statement_metadata) THEN TRUE
        ELSE IF get_country_info_raises(Get(statement_metadata, "country_code", Str(<<"U", "S">>))) THEN TRUE
        ELSE IF len_raises(transactions) THEN TRUE
        ELSE IF Truthy(transactions) /\ ~IsList(transactions) THEN TRUE
        ELSE IF Truthy(transactions) /\ \E i \in 1..Len(transactions.v) : TransactionRaises(transactions.v[i]) THEN TRUE
        ELSE IF Truthy(transactions) /\ DatesOutcome(Dated(transactions.v), 1) = "AttributeError" THEN TRUE
        ELSE ~IsDict(account_info)

\* A scorer whose total leaves out the financial consistency points.
BaseTotalPoints_Short(transaction_volume, transaction_diversity, transaction_detail, core_statement, account_completeness, financial_consistency) ==
    RAdd(RAdd(RAdd(RAdd(transaction_volume, transaction_diversity), transaction_detail),
              core_statement),
         account_completeness)

\* base_total_points: the sum of the six sub-scores.
BaseTotalPoints(transaction_volume, transaction_diversity, transaction_detail, core_statement, account_completeness, financial_consistency) ==
    RAdd(RAdd(RAdd(RAdd(RAdd(transaction_volume, transaction_diversity), transaction_detail),
                   core_statement),
              account_completeness),
         financial_consistency)

calculate_credit_statement_score(data) ==
    LET country_code == Get(Get(data, "statement_metadata", EmptyDict), "country_code", Str(<<"U", "S">>))
        transaction_volume == RInt(calculate_transaction_volume_score(data))
        transaction_diversity == calculate_transaction_diversity_score(data)
        transaction_detail == calculate_transaction_detail_score(data)
        core_statement == RInt(calculate_core_statement_score(data))
        account_completeness == RInt(calculate_account_completeness_score(data))
        financial_consistency == RInt(calculate_financial_consistency_score(data))
        base_total_points == BaseTotalPoints(transaction_volume, transaction_diversity, transaction_detail,
                                             core_statement, account_completeness, financial_consistency)
        country_adjusted == calculate_country_adjusted_score(base_total_points, country_code)
        total_points == country_adjusted.final_score
        vana_score == country_adjusted.vana_score
        quality == vana_score
    IN  [ score |-> vana_score,
          total_points |-> total_points,
          quality |-> quality,
          valid |-> TRUE,
          rejected |-> FALSE,
          country_info |-> country_adjusted.country_info,
          breakdown |->
            [ transaction_volume |-> transaction_volume,
              transaction_diversity |-> transaction_diversity,
              transaction_detail |-> transaction_detail,
              transaction_total |-> RAdd(RAdd(transaction_volume, transaction_diversity), transaction_detail),
              core_statement |-> core_statement,
              account_completeness |-> account_completeness,
              financial_consistency |-> financial_consistency,
              supporting_total |-> RAdd(RAdd(core_statement, account_completeness), financial_consistency),
              raw_total |-> base_total_points,
              country_multiplier |-> country_adjusted.country_multiplier,
              scarcity_bonus |-> country_adjusted.scarcity_bonus,
              country_adjusted_total |-> country_adjusted.adjusted_total ] ]

\* rejection_response(reason, details)
rejection_response(reason, details) ==
    [ score |-> RInt(0),
      total_points |-> RInt(0),
      quality |-> RInt(0),
      valid |-> FALSE,
      rejected |-> TRUE,
      reason |-> reason,
      details |-> IF Truthy(details) THEN details ELSE EmptyDict ]

----------------------------------------------------------------------------
(* proof.py *)

\* A variable that holds no value yet.
Unset == [set |-> FALSE]

\* Proof._load_input_data: None without a .json file or when reading or
\* parsing fails, else the parsed document.
load_input_data(in) == IF in.kind = "json" THEN in.data ELSE Null

\* input_data.get('statement_metadata', {}).get(key)
MetadataField(input_data, key) == Get(Get(input_data, "statement_metadata", EmptyDict), key, Null)

\* A rejection that keeps the authenticity of an accepted response.
set_rejection_response_Authentic(reason) ==
    [ set |-> TRUE,
      valid |-> FALSE,
      score |-> RInt(0),
      quality |-> RInt(0),
      authenticity |-> RInt(1),
      uniqueness |-> RInt(0),
      ownership |-> RInt(0),
      attributes |-> [rejected |-> TRUE, rejection_reason |-> reason] ]

\* Proof._set_rejection_response(reason): the response it sets and returns.
set_rejection_response(reason) ==
    [ set |-> TRUE,
      valid |-> FALSE,
      score |-> RInt(0),
      quality |-> RInt(0),
      authenticity |-> RInt(0),
      uniqueness |-> RInt(0),
      ownership |-> RInt(0),
      attributes |-> [rejected |-> TRUE, rejection_reason |-> reason] ]

\* Proof.generate, lines 31-47: the response for a rejected validation result.
RejectedResponse(input_data, result) ==
    [ set |-> TRUE,
      valid |-> FALSE,
      score |-> RInt(0),
      quality |-> RInt(0),
      authenticity |-> RInt(0),
      uniqueness |-> RInt(0),
      ownership |-> RInt(0),
      attributes |-> [ rejected |-> TRUE,
                       rejection_reason |-> result.reason,
                       details |-> result.details,
                       record_id |-> MetadataField(input_data, "record_id") ] ]

\* Proof.generate, lines 49-68: the response for a scored record (the
\* validation_timestamp of metadata is the wall clock and is left out).
AcceptedResponse(input_data, schema_type, result) ==
    [ set |-> TRUE,
      valid |-> TRUE,
      score |-> result.score,
      quality |-> result.quality,
      authenticity |-> RInt(1),
      uniqueness |-> RInt(1),
      ownership |-> RInt(1),
      attributes |-> [ rejected |-> FALSE,
                       schema_type |-> schema_type,
                       record_id |-> MetadataField(input_data, "record_id"),
                       statement_date |-> MetadataField(input_data, "statement_date"),
                       card_brand |-> Get(Get(input_data, "account_info", EmptyDict), "card_brand", Null),
                       total_points |-> result.total_points,
                       score_breakdown |-> result.breakdown,
                       has_enriched_features |-> Truthy(Get(input_data, "engineered_features", Null)) ],
      metadata |-> [schema_type |-> schema_type, validation_version |-> "2.0"] ]

\* validate_schema(input_data) returns (schema_type, schema_valid); the
\* detector is not part of the sources, so any outcome is possible.
SchemaResults ==
    { [type |-> "credit_statement", valid |-> TRUE],
      [type |-> "unknown", valid |-> FALSE] }

\* generate(): input_data = self._load_input_data(); if not input_data: reject.
Generate_Load ==
    /\ pc = "start" /\ args.fn = "generate"
    /\ calls' = Append(calls, "_load_input_data")
    /\ IF ~Truthy(load_input_data(input))
       THEN /\ proof_response' = set_rejection_response("NO_INPUT_DATA")
            /\ pc' = "done"
       ELSE /\ proof_response' = proof_response
            /\ pc' = "loaded"
    /\ UNCHANGED <<input, args, schema, validation_result, out>>

\* A generate() that goes on to score whatever validate_schema says.
Generate_ValidateSchema_Unchecked ==
    /\ pc = "loaded"
    /\ \E r \in SchemaResults : schema' = r
    /\ pc' = "validated"
    /\ calls' = Append(calls, "validate_schema")
    /\ UNCHANGED <<input, args, validation_result, proof_response, out>>

\* generate(): schema_type, schema_valid = validate_schema(input_data); if not valid: reject.
Generate_ValidateSchema ==
    /\ pc = "loaded"
    /\ \E r \in SchemaResults :
         /\ schema' = r
         /\ IF ~r.valid
            THEN /\ proof_response' = set_rejection_response("INVALID_SCHEMA")
                 /\ pc' = "done"
            ELSE /\ proof_response' = proof_response
                 /\ pc' = "validated"
    /\ calls' = Append(calls, "validate_schema")
    /\ UNCHANGED <<input, args, validation_result, out>>

\* generate(): validation_result = calculate_credit_statement_score(input_data)
Generate_Score ==
    /\ pc = "validated"
    /\ calls' = Append(calls, "calculate_credit_statement_score")
    /\ IF calculate_credit_statement_score_raises(load_input_data(input))
       THEN /\ pc' = "raised"
            /\ validation_result' = validation_result
       ELSE /\ pc' = "scored"
            /\ validation_result' = calculate_credit_statement_score(load_input_data(input))
    /\ UNCHANGED <<input, args, schema, proof_response, out>>

\* generate(): fill and return self.proof_response.
Generate_Respond ==
    /\ pc = "scored"
    /\ proof_response' =
         IF validation_result.rejected
         THEN RejectedResponse(load_input_data(input), validation_result)
         ELSE AcceptedResponse(load_input_data(input), schema.type, validation_result)
    /\ pc' = "done"
    /\ UNCHANGED <<input, args, schema, validation_result, calls, out>>

\* A direct call rejection_response(reason, details).
Call_rejection_response ==
    /\ pc = "start" /\ args.fn = "rejection_response"
    /\ out' = rejection_response(args.reason, args.details)
    /\ pc' = "returned"
    /\ UNCHANGED <<input, args, schema, validation_result, proof_response, calls>>

----------------------------------------------------------------------------
(* validators/fraud.py *)

\* Characters for which str.isdigit() holds and int() raises ValueError: the
\* superscript digits, with "sup2" standing for the one character U+00B2.
SuperscriptDigits == {"sup2"}

\* s.isdigit()
IsDigitString(s) == Len(s) > 0 /\ \A i \in 1..Len(s) : s[i] \in Digits \cup SuperscriptDigits

\* sum(digits_of(d * 2))
DoubledDigitSum(d) == ((2 * d) \div 10) + ((2 * d) % 10)

\* luhn_checksum: the digits at odd places from the right (digits[-1::-2]) as
\* they are, those at even places (digits[-2::-2]) doubled and digit-summed.
RECURSIVE LuhnSum(_, _)
LuhnSum(digits, k) ==
    IF k > Len(digits) THEN 0
    ELSE LET d == DigitVal(digits[Len(digits) - k + 1])
         IN  (IF k % 2 = 1 THEN d ELSE DoubledDigitSum(d)) + LuhnSum(digits, k + 1)

luhn_checksum(card_num) == LuhnSum(card_num, 1) % 10

\* card_number.replace(' ', '').replace('-', '')
LuhnCleaned(card_number) == Remove(Remove(card_number, <<" ">>), <<"-">>)

\* digits_of raises ValueError at int(d) for a character that passes
\* isdigit() and is no decimal digit.
luhn_validate_raises(card_number) ==
    /\ IsDigitString(LuhnCleaned(card_number))
    /\ \E i \in 1..Len(LuhnCleaned(card_number)) : LuhnCleaned(card_number)[i] \in SuperscriptDigits

luhn_validate(card_number) ==
    IF ~IsDigitString(LuhnCleaned(card_number)) THEN FALSE
    ELSE luhn_checksum(LuhnCleaned(card_number)) = 0

\* The brand read from the leading characters of the identifier.
ExpectedBrand(masked_number) ==
    IF StartsWithAt(masked_number, 1, <<"4">>) THEN <<"V", "I", "S", "A">>
    ELSE IF StartsWithAt(masked_number, 1, <<"5">>) \/ StartsWithAt(masked_number, 1, <<"2">>)
         THEN <<"M", "A", "S", "T", "E", "R", "C", "A", "R", "D">>
    ELSE IF StartsWithAt(masked_number, 1, <<"3">>)
         THEN IF Len(masked_number) >= 2
              THEN IF masked_number[2] \in {"4", "7"} THEN <<"A", "M", "E", "X">> ELSE <<"D", "I", "N", "E", "R", "S">>
              ELSE <<"A", "M", "E", "X">>
    ELSE IF StartsWithAt(masked_number, 1, <<"6">>) THEN <<"D", "I", "S", "C", "O", "V", "E", "R">>
    ELSE <<"U", "N", "K", "N", "O", "W", "N">>

\* data.get('account_info', {}).get('card_brand', '')
ReportedBrandField(data) == Get(Get(data, "account_info", EmptyDict), "card_brand", EmptyStr)

validate_card_brand_consistency(masked_number, data) ==
    LET expected_brand == ExpectedBrand(masked_number)
        reported_brand == Upper(ReportedBrandField(data).v)
        brand_matches == \/ expected_brand = reported_brand
                         \/ reported_brand \in {<<"U", "N", "K", "N", "O", "W", "N">>, <<"O", "T", "H", "E", "R">>, <<>>}
                         \/ expected_brand = <<"U", "N", "K", "N", "O", "W", "N">>
    IN  [ consistent |-> brand_matches,
          expected_brand |-> expected_brand,
          reported_brand |-> reported_brand ]

\* data.get('statement_metadata', {}).get('card_identifier', '')
CardIdentifierField(data) == Get(Get(data, "statement_metadata", EmptyDict), "card_identifier", EmptyStr)

\* card_identifier.replace('*', '').replace('-', '').replace(' ', '')
CleanCard(card_identifier) == Remove(Remove(Remove(card_identifier, <<"*">>), <<"-">>), <<" ">>)

IsEvaluated_AnyLength(card_identifier) == IsDigitString(CleanCard(card_identifier))

\* The guard of detect_card_fraud: len(card_identifier) >= 13 and clean_card.isdigit()
IsEvaluated(card_identifier) ==
    Len(card_identifier) >= 13 /\ IsDigitString(CleanCard(card_identifier))

IsMasked(card_identifier) == \E i \in 1..Len(card_identifier) : card_identifier[i] = "*"

\* The brand check raises when account_info is no dict or card_brand is no
\* string (.upper()).
validate_card_brand_consistency_raises(data) ==
    IF ~IsDict(Get(data, "account_info", EmptyDict)) THEN TRUE
    ELSE ~IsStr(ReportedBrandField(data))

\* detect_card_fraud raises when a section is no dict, the identifier is no
\* string, or the Luhn check or the brand check raises.
detect_card_fraud_raises(data) ==
    IF ~IsDict(data) THEN TRUE
    ELSE IF ~IsDict(Get(data, "statement_metadata", EmptyDict)) THEN TRUE
    ELSE IF ~IsStr(CardIdentifierField(data)) THEN TRUE
    ELSE IF ~IsEvaluated(CardIdentifierField(data).v) THEN FALSE
    ELSE IF IsMasked(CardIdentifierField(data).v) THEN validate_card_brand_consistency_raises(data)
    ELSE luhn_validate_raises(CardIdentifierField(data).v)

FraudIndicators(data) ==
    LET card_identifier == CardIdentifierField(data).v
    IN  IF IsEvaluated(card_identifier)
        THEN IF ~IsMasked(card_identifier)
             THEN <<[type |-> "PRIVACY_VIOLATION"]>>
                  \o (IF ~luhn_validate(card_identifier)
                      THEN <<[type |-> "INVALID_CARD_NUMBER"]>> ELSE <<>>)
             ELSE IF ~validate_card_brand_consistency(card_identifier, data).consistent
                  THEN <<[type |-> "BRAND_MISMATCH"]>> ELSE <<>>
        ELSE <<>>

detect_card_fraud(data) ==
    [ is_fraudulent |-> Len(FraudIndicators(data)) > 0,
      fraud_indicators |-> FraudIndicators(data) ]

----------------------------------------------------------------------------
(* validators/pii.py *)

\* The four patterns, in the order of the dict pii_patterns.
pii_types == <<"ssn", "full_cc", "phone", "email">>

pii_patterns(pii_type) ==
    CASE pii_type = "ssn" ->
           <<Boundary, Item("d", 3, 3), Item("-", 1, 1), Item("d", 2, 2), Item("-", 1, 1),
             Item("d", 4, 4), Boundary>>
      [] pii_type = "full_cc" ->
           <<Boundary, Item("d", 4, 4), Item("s-", 0, 1), Item("d", 4, 4), Item("s-", 0, 1),
             Item("d", 4, 4), Item("s-", 0, 1), Item("d", 4, 4), Boundary>>
      [] pii_type = "phone" ->
           <<Boundary, Item("d", 3, 3), Item("-.", 0, 1), Item("d", 3, 3), Item("-.", 0, 1),
             Item("d", 4, 4), Boundary>>
      [] pii_type = "email" ->
           <<Boundary, Item("local", 1, -1), Item("@", 1, 1), Item("domain", 1, -1),
             Item(".", 1, 1), Item("tld", 2, -1), Boundary>>

\* The decimal digits of a natural number.
RECURSIVE NatDigits(_)
NatDigits(n) ==
    LET c == CHOOSE x \in Digits : DigitVal(x) = n % 10
    IN  IF n < 10 THEN <<c>> ELSE NatDigits(n \div 10) \o <<c>>

\* str(x) of a field value: a string is itself, None is 'None', a bool is
\* 'True'/'False', a whole number its digits (other numbers, lists and dicts
\* are not among the text fields of the model's inputs).
PyStr(x) ==
    CASE x.t = "str" -> x.v
      [] x.t = "null" -> <<"N", "o", "n", "e">>
      [] x.t = "bool" -> IF x.v THEN <<"T", "r", "u", "e">> ELSE <<"F", "a", "l", "s", "e">>
      [] x.t = "num" -> (IF x.v < 0 THEN <<"-">> ELSE <<>>) \o NatDigits(Abs(x.v) \div Unit)
      [] OTHER -> <<>>

\* The first pattern, in dict order from i on, that matches the description
\* or the merchant name; "" when none does.
RECURSIVE FirstPii(_, _, _)
FirstPii(description, merchant, i) ==
    IF i > Len(pii_types) THEN ""
    ELSE IF \/ Search(pii_patterns(pii_types[i]), description)
            \/ Search(pii_patterns(pii_types[i]), merchant)
         THEN pii_types[i]
         ELSE FirstPii(description, merchant, i + 1)

TransactionPii_DescriptionOnly(txn) ==
    FirstPii(PyStr(Get(txn, "description", EmptyStr)), <<>>, 1)

TransactionPii(txn) ==
    FirstPii(PyStr(Get(txn, "description", EmptyStr)), PyStr(Get(txn, "merchant_name", EmptyStr)), 1)

\* scan_for_basic_pii raises when transactions cannot be iterated or an
\* element has no .get.
scan_for_basic_pii_raises(data) ==
    LET transactions == Transactions(data)
    IN  IF transactions.t \in {"null", "num", "bool"} THEN TRUE
        ELSE IF ~IsList(transactions) THEN Truthy(transactions)
        ELSE \E i \in 1..Len(transactions.v) : ~IsDict(transactions.v[i])

scan_for_basic_pii(data) ==
    LET transactions == IF IsList(Transactions(data)) THEN Txns(data) ELSE <<>>
        found == [i \in 1..Len(transactions) |-> TransactionPii(transactions[i])]
        pii_found == SelectSeq(found, LAMBDA x : x # "")
    IN  [ pii_detected |-> Len(pii_found) > 0,
          pii_types |-> {pii_found[i] : i \in 1..Len(pii_found)},
          is_clean |-> Len(pii_found) = 0,
          pii_count |-> Len(pii_found) ]

----------------------------------------------------------------------------
(* Input records *)

\* A dict entry that is present only when cond holds.
Opt(cond, key, val) == IF cond THEN key :> val ELSE <<>>

\* The largest number of transactions of an input record.
MaxTxns == 51

\* Transaction counts around the breakpoints of the volume score.
TxnCounts == {1, 4, 5, 9, 10, 19, 20, 29, 30, 49, 50, MaxTxns}

UpperLetterSeq ==
    <<"A", "B", "C", "D", "E", "F", "G", "H", "I", "J", "K", "L", "M",
      "N", "O", "P", "Q", "R", "S", "T", "U", "V", "W", "X", "Y", "Z">>
DigitSeq == <<"0", "1", "2", "3", "4", "5", "6", "7", "8", "9">>
TwoDigits(n) == <<DigitSeq[(n \div 10) + 1], DigitSeq[(n % 10) + 1]>>

\* Transaction i of a detailed statement: its own merchant, amount and day.
RichTxn(i) ==
    Dict( ("description" :> Str(<<"S", "h", "o", "p">> \o <<UpperLetterSeq[(i \div 26) + 1], UpperLetterSeq[(i % 26) + 1]>>
                                \o <<" ", "D", "o", "w", "n", "t", "o", "w", "n", " ", "B", "r", "a", "n", "c", "h">>))
       @@ ("merchant_name" :> Str(<<"S", "h", "o", "p">>))
       @@ ("amount" :> Num(i * Unit + 250))
       @@ ("transaction_type" :> Str(<<"P", "U", "R", "C", "H", "A", "S", "E">>))
       @@ ("date" :> Str(<<"2", "0", "2", "4", "-">> \o TwoDigits(1 + (i % 3)) \o <<"-">> \o TwoDigits(1 + (i % 28)))) )

\* A terse transaction: a short description, a small amount, no date.
PlainTxn(i) ==
    Dict( ("description" :> Str(<<"P", "O", "S">>))
       @@ ("amount" :> Num(500))
       @@ ("transaction_type" :> Str(<<"P", "A", "Y", "M", "E", "N", "T">>)) )

\* Transactions with one field that is unusual or malformed.
SpecialTxn(kind) ==
    CASE kind = "bad_amount" -> Dict(("amount" :> Str(<<"a", "b", "c">>)) @@ RichTxn(3).v)
      [] kind = "null_amount" -> Dict(("amount" :> Null) @@ RichTxn(3).v)
      [] kind = "str_amount" -> Dict(("amount" :> Str(<<"1", "2", ".", "5">>)) @@ RichTxn(3).v)
      [] kind = "null_description" -> Dict(("description" :> Null) @@ RichTxn(3).v)
      [] kind = "ssn" -> Dict(("description" :> Str(<<"R", "E", "F", " ", "5", "5", "5", "-", "1", "2", "-", "3", "4", "5", "6", " ", "R", "E", "F", "U", "N", "D">>)) @@ RichTxn(3).v)
      [] kind = "email" -> Dict(("merchant_name" :> Str(<<"j", "a", "n", "e", ".", "d", "o", "e", "@", "e", "x", "a", "m", "p", "l", "e", ".", "c", "o", "m">>)) @@ RichTxn(3).v)
      [] kind = "bad_date" -> Dict(("date" :> Str(<<"n", "o", "t", "-", "a", "-", "d", "a", "t", "e">>)) @@ RichTxn(3).v)
      [] kind = "num_date" -> Dict(("date" :> Num(5 * Unit)) @@ RichTxn(3).v)
      [] kind = "utc_date" -> Dict(("date" :> Str(<<"2", "0", "2", "4", "-", "0", "3", "-", "1", "5", "T", "0", "0", ":", "0", "0", ":", "0", "0", "Z">>)) @@ RichTxn(3).v)
      [] kind = "not_a_dict" -> Str(<<"a", "b", "c">>)

SpecialKinds ==
    {"bad_amount", "null_amount", "str_amount", "null_description", "ssn", "email",
     "bad_date", "num_date", "utc_date", "not_a_dict"}

\* The transactions entry of a record, by profile.
TxnProfiles ==
    {[kind |-> "absent", n |-> 0], [kind |-> "empty", n |-> 0], [kind |-> "null", n |-> 0]}
    \cup {[kind |-> "rich", n |-> n] : n \in TxnCounts}
    \cup {[kind |-> "plain", n |-> n] : n \in {1, 5}}
    \cup {[kind |-> k, n |-> 3] : k \in SpecialKinds}

SmallTxnProfiles ==
    {[kind |-> "absent", n |-> 0], [kind |-> "empty", n |-> 0], [kind |-> "rich", n |-> 1]}

TxnEntry(p) ==
    CASE p.kind = "absent" -> <<>>
      [] p.kind = "empty" -> "transactions" :> List(<<>>)
      [] p.kind = "null" -> "transactions" :> Null
      [] p.kind = "rich" -> "transactions" :> List([i \in 1..p.n |-> RichTxn(i)])
      [] p.kind = "plain" -> "transactions" :> List([i \in 1..p.n |-> PlainTxn(i)])
      [] OTHER -> "transactions" :> List(<<RichTxn(1), RichTxn(2), SpecialTxn(p.kind)>>)

\* The country_code entry of statement_metadata.
CountryProfiles ==
    {"absent", "US", "IN", "in", "ZZ", "empty", "null", "GB", "BR", "NG", "number"}

CountryEntry(c) ==
    CASE c = "absent" -> <<>>
      [] c = "US" -> "country_code" :> Str(<<"U", "S">>)
      [] c = "IN" -> "country_code" :> Str(<<"I", "N">>)
      [] c = "in" -> "country_code" :> Str(<<"i", "n">>)
      [] c = "ZZ" -> "country_code" :> Str(<<"Z", "Z">>)
      [] c = "empty" -> "country_code" :> EmptyStr
      [] c = "null" -> "country_code" :> Null
      [] c = "GB" -> "country_code" :> Str(<<"G", "B">>)
      [] c = "BR" -> "country_code" :> Str(<<"B", "R">>)
      [] c = "NG" -> "country_code" :> Str(<<"N", "G">>)
      [] c = "number" -> "country_code" :> Num(5 * Unit)

MaskedVisa == <<"4", "*", "*", "*", "-", "*", "*", "*", "*", "-", "*", "*", "*", "*", "-", "1", "2", "3", "4">>
ValidCardNumber == <<"4", "5", "3", "2", "0", "1", "5", "1", "1", "2", "8", "3", "0", "3", "6", "6">>
InvalidCardNumber == <<"4", "5", "3", "2", "0", "1", "5", "1", "1", "2", "8", "3", "0", "3", "6", "7">>
SomeDate == <<"2", "0", "2", "4", "-", "0", "1", "-", "0", "1">>
LaterDate == <<"2", "0", "2", "4", "-", "0", "1", "-", "3", "1">>

FullMetadata ==
    ("record_id" :> Str(<<"r", "e", "c", "-", "0", "0", "1">>))
    @@ ("statement_date" :> Str(LaterDate))
    @@ ("statement_period" :> Dict(("start_date" :> Str(SomeDate)) @@ ("end_date" :> Str(LaterDate))))
    @@ ("statement_period_start" :> Str(SomeDate))
    @@ ("statement_period_end" :> Str(LaterDate))
    @@ ("card_identifier" :> Str(MaskedVisa))

\* The statement_metadata entry of a record, by profile and country entry.
MetaProfiles ==
    {"full", "nested_period", "bare", "absent", "unmasked_valid", "unmasked_invalid", "null"}

MetaEntry(m, c) ==
    CASE m = "full" -> "statement_metadata" :> Dict(CountryEntry(c) @@ FullMetadata)
      [] m = "nested_period" ->
           "statement_metadata" :>
             Dict(CountryEntry(c)
                  @@ ("record_id" :> Str(<<"r", "e", "c", "-", "0", "0", "1">>))
                  @@ ("statement_date" :> Str(LaterDate))
                  @@ ("statement_period" :> Dict(("start_date" :> Str(SomeDate)) @@ ("end_date" :> Str(LaterDate)))))
      [] m = "bare" -> "statement_metadata" :> Dict(CountryEntry(c) @@ ("record_id" :> Str(<<"r", "e", "c", "-", "0", "0", "1">>)))
      [] m = "absent" -> <<>>
      [] m = "unmasked_valid" ->
           "statement_metadata" :> Dict(CountryEntry(c) @@ ("card_identifier" :> Str(ValidCardNumber)) @@ FullMetadata)
      [] m = "unmasked_invalid" ->
           "statement_metadata" :> Dict(CountryEntry(c) @@ ("card_identifier" :> Str(InvalidCardNumber)) @@ FullMetadata)
      [] m = "null" -> "statement_metadata" :> Null

\* The account_info entry of a record, by profile.
AccountProfiles == {"full", "absent", "partial", "zero", "mastercard"}

FullAccount ==
    ("card_brand" :> Str(<<"V", "i", "s", "a">>))
    @@ ("card_type" :> Str(<<"C", "R", "E", "D", "I", "T">>))
    @@ ("credit_limit" :> Num(5000 * Unit))
    @@ ("available_credit" :> Num(4000 * Unit))
    @@ ("current_balance" :> Num(1000 * Unit))
    @@ ("account_number_masked" :> Str(MaskedVisa))

AccountEntry(a) ==
    CASE a = "full" -> "account_info" :> Dict(FullAccount)
      [] a = "absent" -> <<>>
      [] a = "partial" ->
           "account_info" :> Dict(("card_brand" :> Str(<<"V", "i", "s", "a">>)) @@ ("current_balance" :> Num(1000 * Unit)))
      [] a = "zero" ->
           "account_info" :> Dict(("credit_limit" :> Num(0)) @@ ("current_balance" :> Num(0))
                                  @@ ("available_credit" :> Num(0)) @@ ("card_brand" :> EmptyStr))
      [] a = "mastercard" -> "account_info" :> Dict(("card_brand" :> Str(<<"M", "A", "S", "T", "E", "R", "C", "A", "R", "D">>)) @@ FullAccount)

\* The record with the given profiles (engineered_features marks the source).
MkRecord(m, c, a, p) ==
    Dict(MetaEntry(m, c) @@ AccountEntry(a) @@ TxnEntry(p)
         @@ ("engineered_features" :> Dict("spending_trend" :> Str(<<"s", "t", "a", "b", "l", "e">>))))

\* What the input directory can hold for Proof.generate.
NoFile == [kind |-> "none", data |-> Null]
BadJson == [kind |-> "bad", data |-> Null]
Json(d) == [kind |-> "json", data |-> d]

GenerateInputs ==
    {NoFile, BadJson, Json(EmptyDict)}
    \cup {Json(MkRecord(m, c, a, p)) :
            m \in MetaProfiles, c \in CountryProfiles, a \in AccountProfiles, p \in SmallTxnProfiles}
    \cup {Json(MkRecord("full", c, a, p)) : c \in {"US", "IN", "NG"}, a \in {"full", "absent"}, p \in TxnProfiles}
    \cup {Json(MkRecord("unmasked_valid", "US", "full", p)) : p \in TxnProfiles}
    \cup {Json(MkRecord("nested_period", c, "full", p)) : c \in {"US", "NG"}, p \in TxnProfiles}

\* The reasons of the hard gates and the details passed with them.
RejectionReasons ==
    {"FAKE_CARD_DETECTED", "PII_DETECTED", "MISSING_RECORD_ID", "DUPLICATE_RECORD_ID",
     "BLOCKCHAIN_CHECK_FAILED", "INVALID_STATEMENT_PERIOD"}
RejectionDetails == {Null, EmptyDict, Dict("pii_count" :> Num(1 * Unit))}

----------------------------------------------------------------------------
(* Specification: Proof.generate on every input, rejection_response on every reason *)

Init ==
    /\ pc = "start"
    /\ schema = Unset
    /\ validation_result = Unset
    /\ proof_response = Unset
    /\ calls = <<>>
    /\ out = Unset
    /\ \/ /\ args = [fn |-> "generate"]
          /\ input \in GenerateInputs
       \/ /\ args \in {[fn |-> "rejection_response", reason |-> r, details |-> d] :
                         r \in RejectionReasons, d \in RejectionDetails}
          /\ input = NoFile

Next ==
    \/ Generate_Load
    \/ Generate_ValidateSchema
    \/ Generate_Score
    \/ Generate_Respond
    \/ Call_rejection_response

Spec == Init /\ [][Next]_vars

----------------------------------------------------------------------------
(* Properties of Proof.generate and rejection_response, checked under Spec *)

Generating == args.fn = "generate"
InputData == load_input_data(input)

\* A hard gate fails on the record: the fraud detector or the PII scanner flags it.
GateFails(data) ==
    \/ ~detect_card_fraud_raises(data) /\ detect_card_fraud(data).is_fraudulent
    \/ ~scan_for_basic_pii_raises(data) /\ scan_for_basic_pii(data).pii_detected

\* C1: a record on which a hard gate (fraud, PII) fails is never scored: the
\* evaluation ends in a rejection with valid = false and score 0.
C1_GateFailureRejects ==
    (Generating /\ pc \in {"scored", "done"} /\ IsDict(InputData) /\ GateFails(InputData))
        => /\ validation_result = Unset
           /\ pc = "done" => (~proof_response.valid /\ proof_response.score = RInt(0))

\* C2: no exception escapes Proof.generate: every evaluation ends with a
\* result object, also for a record with malformed field values.
C2_NoExceptionEscapes == Generating => pc # "raised"

\* C3: every rejected response of Proof.generate has score, quality,
\* authenticity, uniqueness and ownership 0 and a rejection_reason, and every
\* value built by rejection_response has score 0, total_points 0, quality 0,
\* valid = false and rejected = true.
C3_RejectionsCarryZeroAndReason ==
    /\ (Generating /\ pc = "done" /\ ~proof_response.valid)
          => /\ proof_response.score = RInt(0)
             /\ proof_response.quality = RInt(0)
             /\ proof_response.authenticity = RInt(0)
             /\ proof_response.uniqueness = RInt(0)
             /\ proof_response.ownership = RInt(0)
             /\ "rejection_reason" \in DOMAIN proof_response.attributes
             /\ proof_response.attributes.rejection_reason # ""
    /\ (args.fn = "rejection_response" /\ pc = "returned")
          => /\ out.score = RInt(0)
             /\ out.total_points = RInt(0)
             /\ out.quality = RInt(0)
             /\ out.valid = FALSE
             /\ out.rejected = TRUE
             /\ out.reason = args.reason

C3_Witness_SchemaRejection ==
    /\ Generating /\ pc = "done"
    /\ ~proof_response.valid
    /\ proof_response.attributes.rejection_reason = "INVALID_SCHEMA"
    /\ proof_response.score = RInt(0)

\* C4: input errors are rejected before scoring begins: no loadable input
\* gives NO_INPUT_DATA, an unrecognised schema gives INVALID_SCHEMA, in both
\* cases calculate_credit_statement_score is never invoked, and the input
\* check precedes the schema check.
C4_InputErrorsRejectedBeforeScoring ==
    Generating =>
      /\ (pc = "done" /\ input.kind \in {"none", "bad"})
            => /\ ~proof_response.valid
               /\ proof_response.attributes.rejection_reason = "NO_INPUT_DATA"
               /\ calls = <<"_load_input_data">>
      /\ (pc = "done" /\ schema # Unset /\ ~schema.valid)
            => /\ ~proof_response.valid
               /\ proof_response.attributes.rejection_reason = "INVALID_SCHEMA"
               /\ calls = <<"_load_input_data", "validate_schema">>
      /\ (\E i \in 1..Len(calls) : calls[i] = "calculate_credit_statement_score")
            => /\ input.kind = "json" /\ Truthy(InputData)
               /\ schema # Unset /\ schema.valid
      /\ \A i \in 1..Len(calls) :
            calls[i] = "validate_schema" => (i > 1 /\ calls[i - 1] = "_load_input_data")

C4_Witness_UnparseableInput ==
    /\ Generating /\ pc = "done" /\ input = BadJson
    /\ proof_response.attributes.rejection_reason = "NO_INPUT_DATA"

\* C5: for every scored record the delivered score lies in [0, 1],
\* total_points in [0, 100] and the raw total in [0, 100], whatever the country.
C5_ScoresWithinRange ==
    (Generating /\ pc \in {"scored", "done"} /\ validation_result # Unset)
        => /\ RLe(RInt(0), validation_result.score) /\ RLe(validation_result.score, RInt(1))
           /\ RLe(RInt(0), validation_result.total_points)
           /\ RLe(validation_result.total_points, RInt(100))
           /\ RLe(RInt(0), validation_result.breakdown.raw_total)
           /\ RLe(validation_result.breakdown.raw_total, RInt(100))
           /\ pc = "done" => /\ proof_response.score = validation_result.score
                             /\ proof_response.attributes.total_points = validation_result.total_points

C5_Witness_FullRawTotal ==
    /\ Generating /\ pc = "done" /\ proof_response.valid
    /\ proof_response.attributes.score_breakdown.raw_total = RInt(100)
    /\ proof_response.score = RInt(1)

BreakdownKeys ==
    {"transaction_volume", "transaction_diversity", "transaction_detail", "transaction_total",
     "core_statement", "account_completeness", "financial_consistency", "supporting_total",
     "raw_total", "country_multiplier", "scarcity_bonus", "country_adjusted_total"}

\* C8: every successful result carries the full breakdown, and in it raw_total
\* is the sum of the six sub-scores, transaction_total + supporting_total =
\* raw_total, country_adjusted_total = raw_total x country_multiplier +
\* scarcity_bonus, total_points = min(country_adjusted_total, 100) and
\* score = quality = total_points / 100.
C8_BreakdownConsistent ==
    (Generating /\ pc = "done" /\ proof_response.valid) =>
      LET b == proof_response.attributes.score_breakdown
      IN  /\ DOMAIN b = BreakdownKeys
          /\ b.raw_total = RAdd(RAdd(RAdd(b.transaction_volume, b.transaction_diversity),
                                     RAdd(b.transaction_detail, b.core_statement)),
                                RAdd(b.account_completeness, b.financial_consistency))
          /\ RAdd(b.transaction_total, b.supporting_total) = b.raw_total
          /\ b.country_adjusted_total = RAdd(RMul(b.raw_total, b.country_multiplier), RInt(b.scarcity_bonus))
          /\ proof_response.attributes.total_points = RMin(b.country_adjusted_total, RInt(100))
          /\ RMul(proof_response.score, RInt(100)) = proof_response.attributes.total_points
          /\ proof_response.quality = proof_response.score

C8_Witness_AdjustedBreakdown ==
    /\ Generating /\ pc = "done" /\ proof_response.valid
    /\ proof_response.attributes.score_breakdown.country_multiplier = Rat(4, 10)
    /\ proof_response.attributes.score_breakdown.scarcity_bonus = 8
    /\ proof_response.attributes.score_breakdown.transaction_diversity.d > 1

----------------------------------------------------------------------------
(* Specification: direct calls of CountryScoring on every score and code *)

MaxBaseScore == 130

\* Base scores 0, 0.5, 1, ... MaxBaseScore.
BaseScores == {Rat(k, 2) : k \in 0..(2 * MaxBaseScore)}

UnknownCountryArgs == {Str(<<"Z","Z">>), Str(<<"z","z">>), Str(<<" ">>), EmptyStr, Null}

CountryArgs ==
    {Str(c) : c \in CountryCodes} \cup {Str(<<"i","n">>), Str(<<"u","s">>), Str(<<"N","g">>)}
        \cup UnknownCountryArgs \cup {Num(5 * Unit), Bool(TRUE), Bool(FALSE), Num(0)}

Call_get_country_info ==
    /\ pc = "start" /\ args.fn = "get_country_info"
    /\ IF get_country_info_raises(args.country_code)
       THEN pc' = "raised" /\ out' = out
       ELSE pc' = "returned" /\ out' = get_country_info(args.country_code)
    /\ UNCHANGED <<input, args, schema, validation_result, proof_response, calls>>

Call_calculate_country_adjusted_score ==
    /\ pc = "start" /\ args.fn = "calculate_country_adjusted_score"
    /\ IF get_country_info_raises(args.country_code)
       THEN pc' = "raised" /\ out' = out
       ELSE pc' = "returned"
            /\ out' = calculate_country_adjusted_score(args.base_score, args.country_code)
    /\ UNCHANGED <<input, args, schema, validation_result, proof_response, calls>>

InitCountry ==
    /\ pc = "start"
    /\ input = NoFile
    /\ schema = Unset
    /\ validation_result = Unset
    /\ proof_response = Unset
    /\ calls = <<>>
    /\ out = Unset
    /\ \/ args \in {[fn |-> "get_country_info", country_code |-> c] : c \in CountryArgs}
       \/ args \in {[fn |-> "calculate_country_adjusted_score", base_score |-> b, country_code |-> c] :
                      b \in BaseScores, c \in CountryArgs}

NextCountry ==
    \/ Call_get_country_info
    \/ Call_calculate_country_adjusted_score

SpecCountry == InitCountry /\ [][NextCountry]_vars

----------------------------------------------------------------------------
(* Properties of CountryScoring, checked under SpecCountry *)

MultiplierOfTier == <<Rat(10, 10), Rat(8, 10), Rat(6, 10), Rat(4, 10), Rat(3, 10)>>
BonusOfTier == <<0, 2, 5, 8, 12>>
PppOfTier == <<Rat(10, 10), Rat(11, 10), Rat(13, 10), Rat(18, 10), Rat(25, 10)>>

AdjustedReturned == pc = "returned" /\ args.fn = "calculate_country_adjusted_score"

\* C6: calculate_country_adjusted_score returns adjusted_total = raw score x
\* multiplier(tier) + scarcity_bonus(tier) with multipliers 1.0, 0.8, 0.6, 0.4,
\* 0.3 and bonuses 0, 2, 5, 8, 12, final_score = min(adjusted_total, 100) and
\* vana_score = final_score / 100; 80 with IN (tier 4) gives 40, 40 and 0.4;
\* the PPP adjustment is carried in country_info and is not in the arithmetic.
C6_CountryAdjustmentArithmetic ==
    AdjustedReturned =>
        LET tier == out.country_info.tier
            adjusted == RAdd(RMul(args.base_score, MultiplierOfTier[tier]), RInt(BonusOfTier[tier]))
        IN  /\ tier \in 1..5
            /\ out.original_score = args.base_score
            /\ out.country_multiplier = MultiplierOfTier[tier]
            /\ out.scarcity_bonus = BonusOfTier[tier]
            /\ out.adjusted_total = adjusted
            /\ out.final_score = (IF RLe(adjusted, RInt(100)) THEN adjusted ELSE RInt(100))
            /\ RMul(out.vana_score, RInt(100)) = out.final_score
            /\ out.country_info.ppp_adjustment = PppOfTier[tier]
            /\ (args.base_score = RInt(80) /\ args.country_code = Str(<<"I","N">>))
                   => /\ tier = 4
                      /\ out.adjusted_total = RInt(40)
                      /\ out.final_score = RInt(40)
                      /\ out.vana_score = Rat(4, 10)

\* 80 points for India: a tier whose PPP adjustment is not 1.
C6_Witness_IndiaEighty ==
    /\ AdjustedReturned
    /\ args.base_score = RInt(80) /\ args.country_code = Str(<<"I","N">>)
    /\ out.final_score = RInt(40)
    /\ out.country_info.ppp_adjustment = Rat(18, 10)

\* The cap at 100 is reached in a tier with a bonus.
C6_Witness_Capped ==
    /\ AdjustedReturned
    /\ out.country_info.tier = 2
    /\ RLt(RInt(100), out.adjusted_total)
    /\ out.final_score = RInt(100)

CountryCall == args.fn \in {"get_country_info", "calculate_country_adjusted_score"}

\* C7: a country code that is not in the table, is empty or is null never
\* raises: both functions return exactly what they return for "US"
\* (tier 1, multiplier 1.0, bonus 0).
C7_UnknownCountryIsUS ==
    (CountryCall /\ pc # "start" /\ args.country_code \in UnknownCountryArgs) =>
        /\ pc = "returned"
        /\ args.fn = "get_country_info" =>
              /\ out = get_country_info(Str(<<"U","S">>))
              /\ out.country_code = <<"U","S">>
              /\ out.tier = 1 /\ out.base_multiplier = RInt(1) /\ out.scarcity_bonus = 0
        /\ args.fn = "calculate_country_adjusted_score" =>
              /\ out = calculate_country_adjusted_score(args.base_score, Str(<<"U","S">>))
              /\ out.country_info.country_code = <<"U","S">>
              /\ out.country_info.tier = 1
              /\ out.country_multiplier = RInt(1) /\ out.scarcity_bonus = 0
              /\ out.adjusted_total = args.base_score

\* "ZZ" scored with a positive base score.
C7_Witness_UnknownCodeScored ==
    /\ pc = "returned" /\ args.fn = "calculate_country_adjusted_score"
    /\ args.country_code = Str(<<"Z","Z">>)
    /\ args.base_score = RInt(80)
    /\ out.final_score = RInt(80)

----------------------------------------------------------------------------
(* Specification: calculate_completeness_score on records built field by field *)

AllFields == tier1_fields \o tier2_fields \o tier3_fields

Range(seq) == {seq[i] : i \in 1..Len(seq)}

IsPrefixOf(p, q) == Len(p) <= Len(q) /\ SubSeq(q, 1, Len(p)) = p

\* How a record writes a field it lacks and a field it has.
\*   absent: "omit" leaves the key out, "null" stores null, "empty" stores an
\*           empty container, "scalar" stores a string where a section or the
\*           transaction list belongs;
\*   falsy:  the fields it has hold falsy values (0, "", false).
Shapes ==
    { [absent |-> "omit", falsy |-> FALSE], [absent |-> "null", falsy |-> TRUE],
      [absent |-> "empty", falsy |-> FALSE], [absent |-> "scalar", falsy |-> TRUE] }

PresentValue(path, shape) ==
    IF path = <<"transactions">>
    THEN (IF shape.falsy THEN List(<<Null>>) ELSE List(<<Dict("amount" :> Num(5 * Unit))>>))
    ELSE IF ~shape.falsy THEN Str(<<"v">>)
    ELSE IF Len(path[Len(path)]) % 3 = 0 THEN Num(0)
    ELSE IF Len(path[Len(path)]) % 3 = 1 THEN EmptyStr
    ELSE Bool(FALSE)

\* The value stored for a lacking leaf or section when the key is kept.
AbsentValue(path, isLeaf, shape) ==
    IF shape.absent = "null" \/ (isLeaf /\ path # <<"transactions">>) THEN Null
    ELSE IF shape.absent = "scalar" THEN Str(<<"x">>)
    ELSE IF path = <<"transactions">> THEN List(<<>>)
    ELSE EmptyDict

\* The dict at prefix of a record whose present fields are exactly P.
RECURSIVE BuildDict(_, _, _)
BuildDict(prefix, P, shape) ==
    LET below == {f \in Range(AllFields) : IsPrefixOf(prefix, f) /\ Len(f) > Len(prefix)}
        keys == {f[Len(prefix) + 1] : f \in below}
        Child(k) == prefix \o <<k>>
        IsLeaf(k) == Child(k) \in Range(AllFields)
        Has(k) == \E f \in P : IsPrefixOf(Child(k), f)
        kept == {k \in keys : Has(k) \/ shape.absent # "omit"}
    IN  Dict([k \in kept |->
                IF ~Has(k) THEN AbsentValue(Child(k), IsLeaf(k), shape)
                ELSE IF IsLeaf(k) THEN PresentValue(Child(k), shape)
                ELSE BuildDict(Child(k), P, shape)])

PrefixSet(fields, n) == {fields[i] : i \in 1..n}

\* The sets of present fields: every subset of tier 1 with tiers 2 and 3
\* whole, every pair of subsets of tiers 2 and 3 with tier 1 whole, and the
\* first i, j and k fields of the three tiers.
PresentSets ==
    {t1 \cup Range(tier2_fields) \cup Range(tier3_fields) : t1 \in SUBSET Range(tier1_fields)}
    \cup {Range(tier1_fields) \cup t2 \cup t3 :
            t2 \in SUBSET Range(tier2_fields), t3 \in SUBSET Range(tier3_fields)}
    \cup {PrefixSet(tier1_fields, i) \cup PrefixSet(tier2_fields, j) \cup PrefixSet(tier3_fields, k) :
            i \in 0..Len(tier1_fields), j \in 0..Len(tier2_fields), k \in 0..Len(tier3_fields)}

\* Records that are no dict at all have no field.
NonDictRecords == {Null, List(<<>>), Str(<<"x">>), Num(Unit)}

\* present is the set of fields the record was built with.
CompletenessArgs ==
    {[fn |-> "calculate_completeness_score", data |-> BuildDict(<<>>, P, shape), present |-> P] :
        P \in PresentSets, shape \in Shapes}
    \cup {[fn |-> "calculate_completeness_score", data |-> d, present |-> {}] : d \in NonDictRecords}

Call_calculate_completeness_score ==
    /\ pc = "start" /\ args.fn = "calculate_completeness_score"
    /\ \E rounding \in RoundingSigns :
          out' = calculate_completeness_score(args.data, rounding)
    /\ pc' = "returned"
    /\ UNCHANGED <<input, args, schema, validation_result, proof_response, calls>>

InitCompleteness ==
    /\ pc = "start"
    /\ input = NoFile
    /\ schema = Unset
    /\ validation_result = Unset
    /\ proof_response = Unset
    /\ calls = <<>>
    /\ out = Unset
    /\ args \in CompletenessArgs

NextCompleteness == Call_calculate_completeness_score

SpecCompleteness == InitCompleteness /\ [][NextCompleteness]_vars

----------------------------------------------------------------------------
(* Properties of calculate_completeness_score, checked under SpecCompleteness *)

CompletenessReturned == pc = "returned" /\ args.fn = "calculate_completeness_score"

PresentIn(fields) == Cardinality(args.present \cap Range(fields))

WeightedSum ==
    RAdd(RAdd(RMul(Rat(60, 100), Rat(PresentIn(tier1_fields), 9)),
              RMul(Rat(25, 100), Rat(PresentIn(tier2_fields), 5))),
         RMul(Rat(15, 100), Rat(PresentIn(tier3_fields), 5)))

NotPresent(field) == field \notin args.present

\* C9: each tier score of calculate_completeness_score is (fields of the tier
\* present) / (fields in the tier) with 9, 5 and 5 fields, the overall score
\* is 0.60*tier1 + 0.25*tier2 + 0.15*tier3, is_complete is true exactly when
\* the overall score is >= 0.8 (so it is false whenever the weighted sum is
\* below 0.8), and each missing_tierN lists exactly the tier's fields that
\* are not present.
C9_CompletenessScoring ==
    CompletenessReturned =>
        /\ Len(tier1_fields) = 9 /\ Len(tier2_fields) = 5 /\ Len(tier3_fields) = 5
        /\ out.tier1_score = Rat(PresentIn(tier1_fields), 9)
        /\ out.tier2_score = Rat(PresentIn(tier2_fields), 5)
        /\ out.tier3_score = Rat(PresentIn(tier3_fields), 5)
        /\ out.completeness_score.val = WeightedSum
        /\ out.is_complete <=>
              \/ RLt(Rat(8, 10), out.completeness_score.val)
              \/ out.completeness_score.val = Rat(8, 10) /\ out.completeness_score.err >= 0
        /\ RLt(WeightedSum, Rat(8, 10)) => ~out.is_complete
        /\ out.missing_tier1 = SelectSeq(tier1_fields, NotPresent)
        /\ out.missing_tier2 = SelectSeq(tier2_fields, NotPresent)
        /\ out.missing_tier3 = SelectSeq(tier3_fields, NotPresent)

\* Four tier-1 fields are missing, tiers 2 and 3 are whole: 0.733 < 0.8.
C9_Witness_MissingTier1Incomplete ==
    /\ CompletenessReturned
    /\ PresentIn(tier1_fields) = 5 /\ PresentIn(tier2_fields) = 5 /\ PresentIn(tier3_fields) = 5
    /\ Len(out.missing_tier1) = 4
    /\ ~out.is_complete

\* One tier-1 field is missing and the record is still complete.
C9_Witness_MissingTier1Complete ==
    /\ CompletenessReturned
    /\ PresentIn(tier1_fields) = 8 /\ PresentIn(tier2_fields) = 4
    /\ out.missing_tier1 = << <<"transactions">> >>
    /\ IsDict(args.data) /\ HasKey(args.data, "transactions")
    /\ out.is_complete

----------------------------------------------------------------------------
(* Specification: validate_financial_integrity on summaries around each breakpoint *)

\* A summary value: absent, or a number of thousandths.
Absent == [present |-> FALSE, v |-> 0]
Amount(n) == [present |-> TRUE, v |-> n]

\* Differences, in thousandths, between the reported and the expected closing
\* balance: on, just inside and just outside 0.01, 0.10 and 1.00.
Deltas == {0, 5, -5, 10, -10, 11, -11, 100, -100, 101, -101, 1000, -1000, 1001, -1001, 5 * Unit}

\* The five summary values other than the closing balance.
SummaryChoices ==
    [ previous_balance : {Absent, Amount(0), Amount(100 * Unit)},
      purchases : {Absent, Amount(50 * Unit)},
      payments_credits : {Absent, Amount(30 * Unit)},
      fees_charged : {Absent, Amount(5 * Unit)},
      interest_charged : {Absent, Amount(2 * Unit), Amount(2 * Unit + 5)} ]

SummaryTotal(c) ==
    c.previous_balance.v + c.purchases.v + c.fees_charged.v + c.interest_charged.v
        - c.payments_credits.v

ClosingChoices(c) == {Absent} \cup {Amount(SummaryTotal(c) + delta) : delta \in Deltas}

\* The dict of the values that are present.
FinancialSummary(values) ==
    Dict([k \in {key \in DOMAIN values : values[key].present} |-> Num(values[k].v)])

\* account_info and risk_metrics: absent, or a limit of 1000 with a ratio.
CreditChoices ==
    { [limit |-> Absent, ratio |-> Absent],
      [limit |-> Amount(0), ratio |-> Amount(127)],
      [limit |-> Amount(Unit * Unit), ratio |-> Amount(127)],
      [limit |-> Amount(Unit * Unit), ratio |-> Absent] }

FinancialRecord(values, credit) ==
    Dict( ("financial_summary" :> FinancialSummary(values))
          @@ (IF credit.limit.present
              THEN "account_info" :> Dict("credit_limit" :> Num(credit.limit.v)) ELSE <<>>)
          @@ (IF credit.ratio.present
              THEN "risk_metrics" :> Dict("credit_utilization_ratio" :> Num(credit.ratio.v))
              ELSE <<>>) )

WithClosing(c, closing) == [k \in DOMAIN c \cup {"closing_balance"} |->
                               IF k = "closing_balance" THEN closing ELSE c[k]]

\* Records whose summary is written as strings, holds booleans, or cannot be
\* read: values is what float() makes of the six fields where it succeeds.
NoValues == [k \in Range(SummaryKeys) |-> Absent]

TextRecord ==
    Dict("financial_summary" :>
           Dict( ("previous_balance" :> Str(<<"1","0","0",".","0","0">>))
                 @@ ("purchases" :> Str(<<"5","0">>))
                 @@ ("payments_credits" :> Str(<<"3","0",".","5">>))
                 @@ ("fees_charged" :> Bool(TRUE))
                 @@ ("closing_balance" :> Str(<<"1","2","0",".","4","5">>)) ))

TextValues ==
    [NoValues EXCEPT !["previous_balance"] = Amount(100 * Unit),
                     !["purchases"] = Amount(50 * Unit),
                     !["payments_credits"] = Amount(30 * Unit + 500),
                     !["fees_charged"] = Amount(Unit),
                     !["closing_balance"] = Amount(120 * Unit + 450)]

UnreadableRecords ==
    { Null,
      List(<<>>),
      Dict("financial_summary" :> Null),
      Dict("financial_summary" :> List(<<>>)),
      Dict("financial_summary" :> Dict("purchases" :> Null)),
      Dict("financial_summary" :> Dict("closing_balance" :> Str(<<"a","b","c">>))),
      Dict("financial_summary" :> Dict("closing_balance" :> Str(<<>>))),
      Dict("financial_summary" :> Dict("fees_charged" :> List(<<Num(Unit)>>))),
      Dict(("financial_summary" :> EmptyDict) @@ ("account_info" :> Null)),
      Dict(("financial_summary" :> EmptyDict) @@ ("account_info" :> Dict("credit_limit" :> Null))),
      Dict(("financial_summary" :> EmptyDict) @@ ("risk_metrics" :> Str(<<"x">>))) }

NoCredit == [limit |-> Absent, ratio |-> Absent]

\* Credit limits (absent, zero, negative, 1000, 2000) and reported ratios on,
\* just inside and just outside 0.05 around the ratios 0.5 and 0.25.
UtilizationChoices ==
    [ limit : {Absent, Amount(0), Amount(0 - Unit * Unit), Amount(Unit * Unit), Amount(2 * Unit * Unit)},
      ratio : {Absent} \cup {Amount(r) : r \in {0, 50, 51, 199, 200, 250, 300, 301, 449, 450, 500,
                                                550, 551, Unit, 2 * Unit}} ]

\* Closing balances 0, 50, 500, 500.50 and 1000 with a reconciled and an
\* unreconciled summary (previous balance 0 or the closing balance itself).
UtilizationClosings == {0, 50 * Unit, 500 * Unit, 500 * Unit + 500, Unit * Unit}

UtilizationValues(closing) ==
    [NoValues EXCEPT !["previous_balance"] = Amount(IF closing = 50 * Unit THEN 0 ELSE closing),
                     !["closing_balance"] = Amount(closing)]

\* values is the six summary values the record was built with, credit the
\* credit limit and the reported utilization ratio.
FinancialArgs ==
    UNION {{[fn |-> "validate_financial_integrity",
             data |-> FinancialRecord(WithClosing(c, closing), credit),
             values |-> WithClosing(c, closing), credit |-> credit] :
               closing \in ClosingChoices(c), credit \in CreditChoices} : c \in SummaryChoices}
    \cup {[fn |-> "validate_financial_integrity",
           data |-> FinancialRecord(UtilizationValues(closing), credit),
           values |-> UtilizationValues(closing), credit |-> credit] :
             closing \in UtilizationClosings, credit \in UtilizationChoices}
    \cup {[fn |-> "validate_financial_integrity", data |-> TextRecord, values |-> TextValues,
           credit |-> NoCredit]}
    \cup {[fn |-> "validate_financial_integrity", data |-> EmptyDict, values |-> NoValues,
           credit |-> NoCredit]}
    \cup {[fn |-> "validate_financial_integrity", data |-> d, values |-> NoValues,
           credit |-> NoCredit] : d \in UnreadableRecords}

Call_validate_financial_integrity ==
    /\ pc = "start" /\ args.fn = "validate_financial_integrity"
    /\ IF validate_financial_integrity_raises(args.data)
       THEN pc' = "raised" /\ out' = out
       ELSE /\ pc' = "returned"
            /\ \E rounding \in FinancialRoundings(args.data) :
                  out' = validate_financial_integrity(args.data, rounding)
    /\ UNCHANGED <<input, args, schema, validation_result, proof_response, calls>>

InitFinancial ==
    /\ pc = "start"
    /\ input = NoFile
    /\ schema = Unset
    /\ validation_result = Unset
    /\ proof_response = Unset
    /\ calls = <<>>
    /\ out = Unset
    /\ args \in FinancialArgs

NextFinancial == Call_validate_financial_integrity

SpecFinancial == InitFinancial /\ [][NextFinancial]_vars

----------------------------------------------------------------------------
(* Properties of validate_financial_integrity, checked under SpecFinancial *)

FinancialReturned == pc = "returned" /\ args.fn = "validate_financial_integrity"

Reconciled ==
    args.values["previous_balance"].v + args.values["purchases"].v
        + args.values["fees_charged"].v + args.values["interest_charged"].v
        - args.values["payments_credits"].v

Difference ==
    IF Reconciled >= args.values["closing_balance"].v
    THEN Reconciled - args.values["closing_balance"].v
    ELSE args.values["closing_balance"].v - Reconciled

\* The computed difference is at most limit (in thousandths).
AtMost(limit) ==
    Difference < limit \/ (Difference = limit /\ out.balance_difference.err <= 0)

\* C10: validate_financial_integrity computes expected_closing = previous_balance
\* + purchases + fees_charged + interest_charged - payments_credits, absent
\* fields counting as 0, and sets balance_score from balance_difference =
\* |expected_closing - closing_balance|: <= 0.01 gives 1.0, <= 0.10 gives 0.9,
\* <= 1.00 gives 0.7, anything else 0.0; 100, 50, 5, 2, 30 and a closing
\* balance of 127 give 1.0.
C10_BalanceReconciliation ==
    FinancialReturned =>
        /\ out.expected_closing = Reconciled
        /\ out.actual_closing = args.values["closing_balance"].v
        /\ out.balance_difference.val = Difference
        /\ out.balance_score =
              (IF AtMost(10) THEN Rat(10, 10)
               ELSE IF AtMost(100) THEN Rat(9, 10)
               ELSE IF AtMost(10 * 100) THEN Rat(7, 10)
               ELSE Rat(0, 10))
        /\ (/\ args.values["previous_balance"] = Amount(100 * Unit)
            /\ args.values["purchases"] = Amount(50 * Unit)
            /\ args.values["fees_charged"] = Amount(5 * Unit)
            /\ args.values["interest_charged"] = Amount(2 * Unit)
            /\ args.values["payments_credits"] = Amount(30 * Unit)
            /\ args.values["closing_balance"] = Amount(127 * Unit))
               => /\ out.expected_closing = 127 * Unit
                  /\ out.balance_difference = Fl(0, 0)
                  /\ out.balance_score = RInt(1)

\* The summary 100, 50, 5, 2, 30 with closing balance 127.
C10_Witness_Reconciled ==
    /\ FinancialReturned
    /\ args.values["previous_balance"] = Amount(100 * Unit)
    /\ args.values["purchases"] = Amount(50 * Unit)
    /\ args.values["fees_charged"] = Amount(5 * Unit)
    /\ args.values["interest_charged"] = Amount(2 * Unit)
    /\ args.values["payments_credits"] = Amount(30 * Unit)
    /\ args.values["closing_balance"] = Amount(127 * Unit)
    /\ out.balance_score = RInt(1)

\* A difference of 0.011 with absent fields counted as 0 scores 0.9.
C10_Witness_SecondBand ==
    /\ FinancialReturned
    /\ ~args.values["purchases"].present /\ ~args.values["fees_charged"].present
    /\ Difference = 11
    /\ out.balance_score = Rat(9, 10)

\* A difference of exactly 1.00 between whole amounts scores 0.7, more scores 0.
C10_Witness_LastBand ==
    /\ FinancialReturned
    /\ out.balance_difference = Fl(Unit, 0)
    /\ out.balance_score = Rat(7, 10)

\* The exact |closing_balance / credit_limit - ratio| compared with 0.05
\* (-1 below, 0 equal, 1 above), for a positive credit limit.
UtilizationGap ==
    LET expected == Rat(args.values["closing_balance"].v, args.credit.limit.v)
        reported == Rat(args.credit.ratio.v, Unit)
        gap == IF RLe(reported, expected) THEN RSub(expected, reported) ELSE RSub(reported, expected)
    IN  IF RLt(gap, Rat(5, 100)) THEN -1 ELSE IF gap = Rat(5, 100) THEN 0 ELSE 1

\* C11: with credit_limit > 0 the utilization_score of validate_financial_integrity
\* is 1.0 if |closing_balance / credit_limit - credit_utilization_ratio| <= 0.05
\* and 0.5 otherwise (on an exact 0.05 the float comparison decides); with an
\* absent or non-positive credit_limit it is 0.8; is_valid is true exactly
\* when balance_score >= 0.7 and utilization_score >= 0.5.
C11_UtilizationAndValidity ==
    FinancialReturned =>
        /\ args.credit.limit.v > 0 =>
              /\ UtilizationGap < 0 => out.utilization_score = Rat(10, 10)
              /\ UtilizationGap > 0 => out.utilization_score = Rat(5, 10)
              /\ out.utilization_score \in {Rat(10, 10), Rat(5, 10)}
        /\ args.credit.limit.v <= 0 => out.utilization_score = Rat(8, 10)
        /\ out.is_valid <=>
              /\ out.balance_score \in {Rat(7, 10), Rat(9, 10), Rat(10, 10)}
              /\ out.utilization_score \in {Rat(5, 10), Rat(8, 10), Rat(10, 10)}
        /\ out.balance_score \in {Rat(0, 10), Rat(7, 10), Rat(9, 10), Rat(10, 10)}
        /\ out.utilization_score \in {Rat(5, 10), Rat(8, 10), Rat(10, 10)}

\* A reported ratio 0.051 away from 500 / 1000 scores 0.5 and the record stays valid.
C11_Witness_UtilizationOff ==
    /\ FinancialReturned
    /\ args.credit.limit = Amount(Unit * Unit) /\ args.credit.ratio = Amount(551)
    /\ args.values["closing_balance"] = Amount(500 * Unit)
    /\ out.utilization_score = Rat(5, 10)
    /\ out.is_valid

\* A present but non-positive credit limit scores 0.8.
C11_Witness_NegativeLimit ==
    /\ FinancialReturned
    /\ args.credit.limit.present /\ args.credit.limit.v < 0
    /\ out.utilization_score = Rat(8, 10)

\* An unreconciled balance makes the record invalid whatever the utilization.
C11_Witness_Invalid ==
    /\ FinancialReturned
    /\ out.balance_score = Rat(0, 10)
    /\ out.utilization_score = Rat(10, 10)
    /\ ~out.is_valid

----------------------------------------------------------------------------
(* Specification: validate_transaction_consistency on mixes of typed transactions *)

Typed(transaction_type, amount) ==
    Dict(("transaction_type" :> Str(transaction_type)) @@ ("amount" :> Num(amount)))

Repeat(x, n) == [i \in 1..n |-> x]

\* How many transactions of each sort a list holds. The sorts and their
\* amounts: purchases of 20 (the second one typed in lower case), a purchase
\* of -7, payments of -15, a payment of 9, a fee of 3, a fee of -1, a refund
\* of 4 and a transaction of 11 without a type.
Mixes ==
    [ purchases : 0..2, negativePurchases : 0..1, payments : 0..1, positivePayments : 0..1,
      fees : 0..1, negativeFees : 0..1, others : 0..1 ]

MixTransactions(mix) ==
    Repeat(Typed(PurchaseType, 20 * Unit), IF mix.purchases > 0 THEN 1 ELSE 0)
    \o Repeat(Typed(<<"R","E","F","U","N","D">>, 4 * Unit), mix.others)
    \o Repeat(Typed(<<"p","u","r","c","h","a","s","e">>, 20 * Unit), IF mix.purchases > 1 THEN 1 ELSE 0)
    \o Repeat(Typed(PurchaseType, 0 - 7 * Unit), mix.negativePurchases)
    \o Repeat(Typed(PaymentType, 0 - 15 * Unit), mix.payments)
    \o Repeat(Dict("amount" :> Num(11 * Unit)), mix.others)
    \o Repeat(Typed(<<"P","a","y","m","e","n","t">>, 9 * Unit), mix.positivePayments)
    \o Repeat(Typed(FeeType, 3 * Unit), mix.fees)
    \o Repeat(Typed(<<"f","e","e">>, 0 - Unit), mix.negativeFees)

\* The totals the sign convention gives a mix.
MixPurchases(mix) == 20 * Unit * mix.purchases
MixPayments(mix) == 15 * Unit * mix.payments
MixFees(mix) == 3 * Unit * mix.fees - Unit * mix.negativeFees

NoSummary == [purchases |-> Absent, payments_credits |-> Absent, fees_charged |-> Absent]

\* What the summary reports against a total: the total off by the tolerance,
\* by just more, or by a whole unit.
Offsets == {0, 20, -20, 21, -21, Unit}

\* The summaries a mix is reconciled with: the one that reports its totals,
\* and that one with one, two or three values absent or off.
SummaryAgainst(mix) ==
    LET exact == [purchases |-> Amount(MixPurchases(mix)),
                  payments_credits |-> Amount(MixPayments(mix)),
                  fees_charged |-> Amount(MixFees(mix))]
        offPurchases == Amount(MixPurchases(mix) - 21)
        offPayments == Amount(MixPayments(mix) + 21)
    IN  {exact, NoSummary}
        \cup {[exact EXCEPT !.purchases = v] :
                v \in {Absent, Amount(MixPurchases(mix) + 20), offPurchases}}
        \cup {[exact EXCEPT !.payments_credits = v] :
                v \in {Absent, Amount(MixPayments(mix) - 20), offPayments}}
        \cup {[exact EXCEPT !.fees_charged = v] :
                v \in {Absent, Amount(0), Amount(0 - 5 * Unit), Amount(MixFees(mix) + Unit)}}
        \cup {[exact EXCEPT !.purchases = offPurchases, !.payments_credits = offPayments],
              [purchases |-> offPurchases, payments_credits |-> offPayments,
               fees_charged |-> Amount(MixFees(mix) + 2 * Unit)]}

ConsistencyRecord(mix, summary) ==
    Dict( ("financial_summary" :> FinancialSummary(summary))
          @@ ("transactions" :> List(MixTransactions(mix))) )

NoMix == [purchases |-> 0, negativePurchases |-> 0, payments |-> 0, positivePayments |-> 0,
          fees |-> 0, negativeFees |-> 0, others |-> 0]

\* The number of transactions of a mix.
MixCount(mix) ==
    mix.purchases + mix.negativePurchases + mix.payments + mix.positivePayments
        + mix.fees + mix.negativeFees + 2 * mix.others

\* mix and summary are what the record was built from, count is the number
\* of its transactions.
ConsistencyCall(mix, summary) ==
    [fn |-> "validate_transaction_consistency", data |-> ConsistencyRecord(mix, summary),
     mix |-> mix, summary |-> summary, count |-> MixCount(mix)]

BareCall(data, count) ==
    [fn |-> "validate_transaction_consistency", data |-> data,
     mix |-> NoMix, summary |-> NoSummary, count |-> count]

\* A fee total reported off by each offset.
FeeOffsetArgs ==
    {ConsistencyCall(mix, summary) :
        mix \in {m \in Mixes : m.fees = 1 /\ m.purchases = 0 /\ m.others = 0},
        summary \in [purchases : {Absent}, payments_credits : {Absent, Amount(15 * Unit)},
                     fees_charged : {Amount(3 * Unit + d) : d \in Offsets}]}

\* Records without a transaction list to reconcile, and records the function
\* cannot read.
EmptyListRecords ==
    { EmptyDict, Dict("transactions" :> List(<<>>)), Dict("transactions" :> Null),
      Dict("transactions" :> EmptyStr), Dict("transactions" :> Num(0)),
      Dict(("transactions" :> List(<<>>)) @@ ("financial_summary" :> Null)) }

UnreconcilableRecords ==
    { Null,
      Dict("transactions" :> Str(<<"x">>)),
      Dict("transactions" :> Num(Unit)),
      Dict("transactions" :> List(<<Null>>)),
      Dict("transactions" :> List(<<Dict("transaction_type" :> Null)>>)),
      Dict("transactions" :> List(<<Dict(("transaction_type" :> Str(FeeType))
                                         @@ ("amount" :> Str(<<"a","b","c">>)))>>)),
      Dict(("transactions" :> List(<<Typed(FeeType, Unit)>>)) @@ ("financial_summary" :> Null)),
      Dict(("transactions" :> List(<<Typed(FeeType, Unit)>>))
           @@ ("financial_summary" :> Dict("purchases" :> Str(<<"a","b","c">>)))) }

\* A refund whose amount float() rejects is never read.
UnreadAmountRecord ==
    Dict("transactions" :> List(<<Dict(("transaction_type" :> Str(<<"R","E","F","U","N","D">>))
                                       @@ ("amount" :> Str(<<"a","b","c">>)))>>))

ConsistencyArgs ==
    UNION {{ConsistencyCall(mix, summary) : summary \in SummaryAgainst(mix)} : mix \in Mixes}
    \cup FeeOffsetArgs
    \cup {BareCall(d, 0) : d \in EmptyListRecords}
    \cup {BareCall(d, 1) : d \in UnreconcilableRecords \cup {UnreadAmountRecord}}

Call_validate_transaction_consistency ==
    /\ pc = "start" /\ args.fn = "validate_transaction_consistency"
    /\ IF validate_transaction_consistency_raises(args.data)
       THEN pc' = "raised" /\ out' = out
       ELSE /\ pc' = "returned"
            /\ \E rounding \in ConsistencyRoundings(args.data) :
                  out' = validate_transaction_consistency(args.data, rounding)
    /\ UNCHANGED <<input, args, schema, validation_result, proof_response, calls>>

InitConsistency ==
    /\ pc = "start"
    /\ input = NoFile
    /\ schema = Unset
    /\ validation_result = Unset
    /\ proof_response = Unset
    /\ calls = <<>>
    /\ out = Unset
    /\ args \in ConsistencyArgs

NextConsistency == Call_validate_transaction_consistency

SpecConsistency == InitConsistency /\ [][NextConsistency]_vars

----------------------------------------------------------------------------
(* Properties of validate_transaction_consistency, checked under SpecConsistency *)

ConsistencyReturned == pc = "returned" /\ args.fn = "validate_transaction_consistency"

Reconciling == ConsistencyReturned /\ "purchase_match" \in DOMAIN out

\* |total - reported| against the tolerance 0.02: -1 below, 0 on it, 1 above.
Off(total, reported) ==
    LET d == IF total >= reported.v THEN total - reported.v ELSE reported.v - total
    IN  Sign(d - 20)

\* A match flag agrees with a difference: inside the tolerance it is set,
\* outside it is not (on the tolerance the float comparison decides).
Agrees(flag, off) == (off < 0 => flag) /\ (off > 0 => ~flag)

\* C12: validate_transaction_consistency recomputes purchases as the sum of
\* the positive amounts of type PURCHASE (negative ones are left out, not
\* made positive), payments as the sum of |amount| of the negative amounts
\* of type PAYMENT (positive ones are left out) and fees as the sum of the
\* amounts of type FEE; a total matches when it is within 0.02 of its
\* financial_summary field, and the fee check is a match when the summary
\* reports zero fees.
C12_TotalsHonourSigns ==
    Reconciling =>
        /\ out.calculated_totals.purchases = MixPurchases(args.mix)
        /\ out.calculated_totals.payments = MixPayments(args.mix)
        /\ out.calculated_totals.fees = MixFees(args.mix)
        /\ out.summary_totals.purchases = args.summary.purchases.v
        /\ out.summary_totals.payments = args.summary.payments_credits.v
        /\ out.summary_totals.fees = args.summary.fees_charged.v
        /\ Agrees(out.purchase_match, Off(MixPurchases(args.mix), args.summary.purchases))
        /\ Agrees(out.payment_match, Off(MixPayments(args.mix), args.summary.payments_credits))
        /\ args.summary.fees_charged.v > 0
              => Agrees(out.fee_match, Off(MixFees(args.mix), args.summary.fees_charged))
        /\ Off(MixFees(args.mix), args.summary.fees_charged) < 0 => out.fee_match
        /\ args.summary.fees_charged.v = 0 => out.fee_match

\* A negative purchase and a positive payment are in the list and in no total.
C12_Witness_SignsExcluded ==
    /\ Reconciling
    /\ args.mix.negativePurchases = 1 /\ args.mix.positivePayments = 1
    /\ args.mix.purchases = 2 /\ args.mix.payments = 1
    /\ out.calculated_totals.purchases = 40 * Unit
    /\ out.calculated_totals.payments = 15 * Unit
    /\ out.purchase_match /\ out.payment_match

\* Fees of 3 against a summary that reports none: a match.
C12_Witness_ZeroFees ==
    /\ Reconciling
    /\ out.calculated_totals.fees = 3 * Unit
    /\ args.summary.fees_charged = Amount(0)
    /\ out.fee_match

\* Fees off by more than the tolerance against a positive summary: no match.
C12_Witness_FeeMismatch ==
    /\ Reconciling
    /\ args.summary.fees_charged.v > 0
    /\ ~out.fee_match

\* C13: for a non-empty transaction list consistency_score is the number of
\* the checks purchase_match, payment_match and fee_match that hold, divided
\* by 3, and is_valid is true exactly when all three hold; for an empty or
\* absent list consistency_score is 0 and is_valid is false.
C13_ConsistencyVerdict ==
    ConsistencyReturned =>
        IF args.count = 0
        THEN out = [consistency_score |-> RInt(0), is_valid |-> FALSE]
        ELSE /\ Reconciling
             /\ out.consistency_score =
                   Rat(Cardinality({k \in {"purchase_match", "payment_match", "fee_match"} : out[k]}), 3)
             /\ out.is_valid <=> (out.purchase_match /\ out.payment_match /\ out.fee_match)

\* Two checks of three hold: the score is 2/3 and the list is not valid.
C13_Witness_TwoOfThree ==
    /\ Reconciling
    /\ out.consistency_score = Rat(2, 3)
    /\ ~out.is_valid

\* No list at all, with a summary that cannot be read: still 0 and not valid.
C13_Witness_EmptyList ==
    /\ ConsistencyReturned
    /\ args.data = Dict(("transactions" :> List(<<>>)) @@ ("financial_summary" :> Null))
    /\ out.consistency_score = RInt(0)

----------------------------------------------------------------------------
(* Direct calls of the functions of validators/fraud.py *)

KnownValidNumber == <<"4", "5", "3", "2", "0", "1", "5", "1", "1", "2", "8", "3", "0", "3", "6", "6">>

\* KnownValidNumber with the digit at place i replaced by another digit.
SingleDigitFlips ==
    {[KnownValidNumber EXCEPT ![i] = c] :
        i \in 1..Len(KnownValidNumber), c \in Digits} \ {KnownValidNumber}

ShortDigitStrings == {<<c>> : c \in Digits} \cup {<<c, d>> : c, d \in Digits}

SeparatedNumbers ==
    { <<"4", "5", "3", "2", "-", "0", "1", "5", "1", "-", "1", "2", "8", "3", "-", "0", "3", "6", "6">>,
      <<"4", "5", "3", "2", " ", "0", "1", "5", "1", " ", "1", "2", "8", "3", " ", "0", "3", "6", "6">>,
      <<"4", "5", "3", "2", "-", "0", "1", "5", "1", "-", "1", "2", "8", "3", "-", "0", "3", "6", "7">>,
      <<"-", " ", "1", "8">> }

NonNumericStrings ==
    { <<>>, <<"a", "b", "c">>, <<"-">>, <<"4", "5", "3", "2", "a", "1", "5", "1", "1", "2", "8", "3", "0", "3", "6", "6">>,
      <<"4", "5", "3", "2", "*", "*", "*", "*", "*", "*", "*", "*", "0", "3", "6", "6">>, <<"4", "5", ".", "3">> }

\* Strings of characters isdigit() accepts, one of them no decimal digit.
SuperscriptStrings ==
    { <<"sup2">>, [KnownValidNumber EXCEPT ![16] = "sup2"], <<"1", "sup2", "-", "3">> }

LuhnArgs ==
    {[fn |-> "luhn_validate", card_number |-> s] :
        s \in {KnownValidNumber} \cup SingleDigitFlips \cup ShortDigitStrings
              \cup SeparatedNumbers \cup NonNumericStrings \cup SuperscriptStrings}

Stars(n) == [i \in 1..n |-> "*"]

\* Masked identifiers of 16 characters by their leading characters, and
\* identifiers of one or two characters.
LeadingCharacters ==
    {<<c>> : c \in {"4", "5", "2", "3", "6", "9", "1", "*"}}
    \cup {<<"3", c>> : c \in {"4", "7", "5", "0", "6", "*", "-"}}
    \cup {<<"4", "3">>, <<"*", "3">>, <<"6", "*">>}

MaskedNumbers ==
    {lead \o Stars(12 - Len(lead)) \o <<"1", "2", "3", "4">> : lead \in LeadingCharacters}
    \cup {<<"3">>, <<"3", "7">>, <<"3", "*">>, <<"4">>, <<>>}

Field(v) == [present |-> TRUE, v |-> v]
NoField == [present |-> FALSE, v |-> Null]

ReportedBrands ==
    {NoField, Field(Null), Field(Num(4 * Unit))}
    \cup {Field(Str(b)) : b \in { <<>>, <<"V", "I", "S", "A">>, <<"v", "i", "s", "a">>, <<"M", "A", "S", "T", "E", "R", "C", "A", "R", "D">>, <<"A", "M", "E", "X">>, <<"A", "m", "e", "x">>, <<"D", "I", "N", "E", "R", "S">>, <<"D", "I", "S", "C", "O", "V", "E", "R">>, <<"U", "N", "K", "N", "O", "W", "N">>, <<"o", "t", "h", "e", "r">>, <<"J", "C", "B">> }}

\* A record with the card identifier and the reported brand given.
FraudRecord(identifier, brand) ==
    Dict("statement_metadata" :>
            Dict(IF identifier.present THEN "card_identifier" :> identifier.v ELSE <<>>)
         @@ "account_info" :>
            Dict(IF brand.present THEN "card_brand" :> brand.v ELSE <<>>)
         @@ "transactions" :> List(<<>>))

BrandArgs ==
    {[fn |-> "validate_card_brand_consistency", masked_number |-> m,
      data |-> FraudRecord(Field(Str(m)), b), brand |-> b] :
        m \in MaskedNumbers, b \in ReportedBrands}

CardIdentifiers ==
    { KnownValidNumber, [KnownValidNumber EXCEPT ![16] = "7"],
      [KnownValidNumber EXCEPT ![16] = "sup2"],
      <<"4", "5", "3", "2", "-", "0", "1", "5", "1", "-", "1", "2", "8", "3", "-", "0", "3", "6", "6">>,
      <<"4", "5", "3", "2", " ", "0", "1", "5", "1", " ", "1", "2", "8", "3", " ", "0", "3", "6", "7">>,
      <<"4", "5", "3", "2", "-", "0", "1", "5", "1", "-", "1", "2", "8", "3">>,
      <<"4", "5", "3", "2", "0", "1", "5", "1", "1", "2", "8", "3">>,
      <<"4", "5", "3", "2", "0", "1", "5", "1", "1", "2", "8", "3", "0">>,
      <<"4", "*", "*", "*", "-", "*", "*", "*", "*", "-", "*", "*", "*", "*", "-", "1", "2", "3", "4">>,
      <<"4", "*", "*", "*", "*", "*", "*", "*", "*", "*", "*", "*">>,
      <<"4", "*", "*", "*", "*", "*", "*", "*", "*", "*", "*", "*", "*">>,
      <<"3", "*", "*", "*", "*", "*", "*", "*", "*", "*", "*", "*", "*">>,
      <<"3", "4", "*", "*", "*", "*", "*", "*", "*", "*", "*", "*", "*">>,
      <<"3", "7", "*", "*", "-", "*", "*", "*", "*", "-", "*", "*", "*", "*", "-", "1", "2", "3", "4">>,
      <<"3", "5", "*", "*", "*", "*", "*", "*", "*", "*", "*", "*", "*">>,
      <<"5", "*", "*", "*", "*", "*", "*", "*", "*", "*", "*", "*", "3", "4">>,
      <<"2", "*", "*", "*", "*", "*", "*", "*", "*", "*", "*", "*", "3", "4">>,
      <<"6", "*", "*", "*", "*", "*", "*", "*", "*", "*", "*", "*", "3", "4">>,
      <<"9", "*", "*", "*", "*", "*", "*", "*", "*", "*", "*", "*", "3", "4">>,
      <<"*", "*", "*", "*", "*", "*", "*", "*", "*", "*", "*", "*", "*">>,
      <<"*", "*", "*", "*", "-", "*", "*", "*", "*", "-", "*", "*", "*", "*", "-", "1", "2", "3", "4">>,
      <<"4", "5", "3", "2", "a", "1", "5", "1", "1", "2", "8", "3", "0", "3", "6", "6">>,
      <<"A", "B", "C", "D", "-", "*", "*", "*", "*", "-", "*", "*", "*", "*", "-", "1", "2", "3", "4">>,
      <<"4", "*", "*", "*", " ", "*", "*", "*", "*", " ", "1", "2", "3", "4">>,
      <<"-", "-", "-", "-", "-", "-", "-", "-", "-", "-", "-", "-", "-">>,
      <<>> }

IdentifierFields ==
    {NoField, Field(Null), Field(Num(4532 * Unit))} \cup {Field(Str(s)) : s \in CardIdentifiers}

FraudBrands ==
    {NoField, Field(Null)}
    \cup {Field(Str(b)) : b \in { <<>>, <<"V", "I", "S", "A">>, <<"v", "i", "s", "a">>, <<"M", "A", "S", "T", "E", "R", "C", "A", "R", "D">>, <<"A", "M", "E", "X">>, <<"D", "I", "N", "E", "R", "S">>, <<"O", "T", "H", "E", "R">> }}

\* Records whose sections are no dicts, and values that are no records.
UnreadableFraudRecords ==
    { Dict("statement_metadata" :> Null), Dict("statement_metadata" :> List(<<>>)),
      Dict("statement_metadata" :> Dict("card_identifier" :> Str(<<"4", "*", "*", "*", "-", "*", "*", "*", "*", "-", "*", "*", "*", "*", "-", "1", "2", "3", "4">>)) @@ "account_info" :> Null),
      Null, List(<<>>) }

FraudArgs ==
    {[fn |-> "detect_card_fraud", data |-> FraudRecord(i, b), identifier |-> i, brand |-> b] :
        i \in IdentifierFields, b \in FraudBrands}
    \cup {[fn |-> "detect_card_fraud", data |-> d, identifier |-> NoField, brand |-> NoField] :
            d \in UnreadableFraudRecords}

Call_luhn_validate ==
    /\ pc = "start" /\ args.fn = "luhn_validate"
    /\ IF luhn_validate_raises(args.card_number)
       THEN pc' = "raised" /\ out' = out
       ELSE pc' = "returned" /\ out' = luhn_validate(args.card_number)
    /\ UNCHANGED <<input, args, schema, validation_result, proof_response, calls>>

Call_validate_card_brand_consistency ==
    /\ pc = "start" /\ args.fn = "validate_card_brand_consistency"
    /\ IF validate_card_brand_consistency_raises(args.data)
       THEN pc' = "raised" /\ out' = out
       ELSE pc' = "returned"
            /\ out' = validate_card_brand_consistency(args.masked_number, args.data)
    /\ UNCHANGED <<input, args, schema, validation_result, proof_response, calls>>

Call_detect_card_fraud ==
    /\ pc = "start" /\ args.fn = "detect_card_fraud"
    /\ IF detect_card_fraud_raises(args.data)
       THEN pc' = "raised" /\ out' = out
       ELSE pc' = "returned" /\ out' = detect_card_fraud(args.data)
    /\ UNCHANGED <<input, args, schema, validation_result, proof_response, calls>>

InitFraud ==
    /\ pc = "start"
    /\ input = NoFile
    /\ schema = Unset
    /\ validation_result = Unset
    /\ proof_response = Unset
    /\ calls = <<>>
    /\ out = Unset
    /\ args \in LuhnArgs \cup BrandArgs \cup FraudArgs

NextFraud ==
    \/ Call_luhn_validate
    \/ Call_validate_card_brand_consistency
    \/ Call_detect_card_fraud

SpecFraud == InitFraud /\ [][NextFraud]_vars

----------------------------------------------------------------------------
(* Properties of the fraud detector, checked under SpecFraud *)

FraudCallEnded(fn) == args.fn = fn /\ pc # "start"
FraudCallReturned(fn) == args.fn = fn /\ pc = "returned"

\* The string without its spaces and dashes.
Unseparated(s) == SelectSeq(s, LAMBDA c : c \notin {" ", "-"})

\* The string without its spaces, dashes and mask characters.
Unmasked(s) == SelectSeq(s, LAMBDA c : c \notin {" ", "-", "*"})

IsNumeric(s) == s # <<>> /\ \A i \in 1..Len(s) : s[i] \in Digits

\* The digit at place k from the right, as it is at odd places and doubled
\* and digit-summed at even places.
PlaceTerm(s, k) ==
    LET d == DigitVal(s[Len(s) + 1 - k])
    IN  IF k % 2 = 1 THEN d ELSE IF 2 * d > 9 THEN 2 * d - 9 ELSE 2 * d

RECURSIVE PlaceSum(_, _)
PlaceSum(s, k) == IF k = 0 THEN 0 ELSE PlaceTerm(s, k) + PlaceSum(s, k - 1)

LuhnDivisible(s) == PlaceSum(s, Len(s)) % 10 = 0

IndicatorTypes(result) ==
    {result.fraud_indicators[i].type : i \in 1..Len(result.fraud_indicators)}

\* The identifier of a detect_card_fraud call, when it is a string.
HasIdentifier == args.fn = "detect_card_fraud" /\ args.identifier.present /\ IsStr(args.identifier.v)
Identifier == args.identifier.v.v

\* C14: every card identifier that is evaluated and has no mask character is
\* flagged PRIVACY_VIOLATION by detect_card_fraud, so is_fraudulent is true
\* whatever the Luhn checksum; INVALID_CARD_NUMBER is flagged as well exactly
\* when the Luhn checksum fails; and is_fraudulent is true exactly when there
\* is at least one indicator.
C14_UnmaskedAlwaysFraud ==
    /\ (FraudCallEnded("detect_card_fraud") /\ HasIdentifier
            /\ IsEvaluated(Identifier) /\ "*" \notin Range(Identifier)) =>
          /\ pc = "returned"
          /\ "PRIVACY_VIOLATION" \in IndicatorTypes(out)
          /\ out.is_fraudulent
          /\ "INVALID_CARD_NUMBER" \in IndicatorTypes(out) <=> ~LuhnDivisible(Unseparated(Identifier))
    /\ FraudCallReturned("detect_card_fraud") =>
          (out.is_fraudulent <=> out.fraud_indicators # <<>>)

\* C15: for every digit string, spaces and dashes removed, luhn_validate
\* returns true exactly when the digits at odd places from the right plus the
\* digit sums of the doubled digits at even places add up to a multiple of 10;
\* it returns false for every other string; 4532015112830366 validates, and
\* no number that differs from it in one digit does.
C15_LuhnChecksum ==
    FraudCallEnded("luhn_validate") =>
        /\ pc = "returned"
        /\ IF IsNumeric(Unseparated(args.card_number))
           THEN out = LuhnDivisible(Unseparated(args.card_number))
           ELSE out = FALSE
        /\ args.card_number = KnownValidNumber => out = TRUE
        /\ args.card_number \in SingleDigitFlips => out = FALSE

\* The brand the leading characters stand for, "" where the rule names none
\* (a 3 followed by a separator).
LeadingBrand(m) ==
    IF m = <<>> THEN "UNKNOWN"
    ELSE CASE m[1] = "4" -> "VISA"
           [] m[1] \in {"5", "2"} -> "MASTERCARD"
           [] m[1] = "6" -> "DISCOVER"
           [] m[1] = "3" ->
                IF Len(m) = 1 \/ m[2] = "*" THEN "AMEX"
                ELSE IF m[2] \in {"4", "7"} THEN "AMEX"
                ELSE IF m[2] \in Digits THEN "DINERS"
                ELSE ""
           [] OTHER -> "UNKNOWN"

BrandName(b) ==
    CASE b = <<"V", "I", "S", "A">> -> "VISA"
      [] b = <<"M", "A", "S", "T", "E", "R", "C", "A", "R", "D">> -> "MASTERCARD"
      [] b = <<"A", "M", "E", "X">> -> "AMEX"
      [] b = <<"D", "I", "N", "E", "R", "S">> -> "DINERS"
      [] b = <<"D", "I", "S", "C", "O", "V", "E", "R">> -> "DISCOVER"
      [] b = <<"U", "N", "K", "N", "O", "W", "N">> -> "UNKNOWN"
      [] b = <<"O", "T", "H", "E", "R">> -> "OTHER"
      [] b = <<>> -> ""
      [] OTHER -> "another"

\* The reported brand of the call, compared without regard to case.
ReportedName == IF args.brand.present THEN BrandName(Upper(args.brand.v.v)) ELSE ""

Tolerated == {"UNKNOWN", "OTHER", ""}

Contradicts(derived, reported) ==
    derived # reported /\ derived \notin Tolerated /\ reported \notin Tolerated

\* C16: validate_card_brand_consistency derives VISA from a leading 4,
\* MASTERCARD from 5 or 2, AMEX from 3 followed by 4 or 7, DINERS from 3
\* followed by another digit, AMEX from a 3 whose second character is masked
\* or missing, DISCOVER from 6 and UNKNOWN from anything else; BRAND_MISMATCH
\* is flagged exactly when the derived brand differs from the reported brand,
\* compared without regard to case, and neither is UNKNOWN, OTHER or empty.
C16_BrandConsistency ==
    /\ (FraudCallReturned("validate_card_brand_consistency")
            /\ LeadingBrand(args.masked_number) # "") =>
          /\ BrandName(out.expected_brand) = LeadingBrand(args.masked_number)
          /\ ~out.consistent <=> Contradicts(LeadingBrand(args.masked_number), ReportedName)
    /\ (FraudCallReturned("detect_card_fraud") /\ HasIdentifier
            /\ IsEvaluated(Identifier) /\ "*" \in Range(Identifier)
            /\ LeadingBrand(Identifier) # "") =>
          ("BRAND_MISMATCH" \in IndicatorTypes(out)
              <=> Contradicts(LeadingBrand(Identifier), ReportedName))

NotFraudulent == [is_fraudulent |-> FALSE, fraud_indicators |-> <<>>]

\* C17 as stated: an identifier whose cleaned string (mask characters, dashes
\* and spaces stripped) has fewer than 13 digits or holds a non-digit is not
\* evaluated: detect_card_fraud returns is_fraudulent = false and no indicator.
C17_CleanedLengthGuard ==
    (FraudCallReturned("detect_card_fraud") /\ HasIdentifier
        /\ ~(IsNumeric(Unmasked(Identifier)) /\ Len(Unmasked(Identifier)) >= 13)) =>
        out = NotFraudulent

\* isdigit() of the cleaned string.
CleanedIsDigits ==
    /\ Unmasked(Identifier) # <<>>
    /\ \A i \in 1..Len(Unmasked(Identifier)) : Unmasked(Identifier)[i] \in Digits \cup SuperscriptDigits

\* C17: an identifier is evaluated only if it has at least 13 characters
\* itself and its cleaned string (mask characters, dashes and spaces
\* stripped) is not empty and all digits; for every identifier with fewer
\* than 13 characters, or whose cleaned string is empty or holds a non-digit,
\* detect_card_fraud returns is_fraudulent = false and no indicator.
C17_RawLengthGuard ==
    (FraudCallEnded("detect_card_fraud") /\ HasIdentifier
        /\ ~(Len(Identifier) >= 13 /\ CleanedIsDigits)) =>
        pc = "returned" /\ out = NotFraudulent

\* Twelve digits without a mask are not evaluated.
C17_Witness_TwelveDigits ==
    /\ FraudCallReturned("detect_card_fraud") /\ HasIdentifier
    /\ Identifier = <<"4", "5", "3", "2", "0", "1", "5", "1", "1", "2", "8", "3">>
    /\ out = NotFraudulent

\* A masked identifier of 19 characters with five digits is evaluated.
C17_Witness_MaskedEvaluated ==
    /\ FraudCallReturned("detect_card_fraud") /\ HasIdentifier
    /\ Identifier = <<"4", "*", "*", "*", "-", "*", "*", "*", "*", "-", "*", "*", "*", "*", "-", "1", "2", "3", "4">>
    /\ "BRAND_MISMATCH" \in IndicatorTypes(out)

----------------------------------------------------------------------------
(* Direct calls of scan_for_basic_pii *)

\* The longest transaction list scanned.
MaxScanned == 2

\* Transactions by what their description and merchant_name hold: shapes are
\* the patterns the two texts were written to match.
ScannedKinds ==
    { [kind |-> "clean", shapes |-> {},
       txn |-> Dict("description" :> Str(<<"C", "O", "F", "F", "E", "E", " ", "S", "H", "O", "P">>) @@ "merchant_name" :> Str(<<"A", "C", "M", "E">>) @@ "amount" :> Num(5 * Unit))],
      [kind |-> "ssnDescription", shapes |-> {"ssn"},
       txn |-> Dict("description" :> Str(<<"S", "S", "N", " ", "5", "5", "5", "-", "1", "2", "-", "3", "4", "5", "6">>) @@ "merchant_name" :> Str(<<"A", "C", "M", "E">>) @@ "amount" :> Num(5 * Unit))],
      [kind |-> "ssnMerchant", shapes |-> {"ssn"},
       txn |-> Dict("description" :> Str(<<"L", "U", "N", "C", "H">>) @@ "merchant_name" :> Str(<<"5", "5", "5", "-", "1", "2", "-", "3", "4", "5", "6">>) @@ "amount" :> Num(5 * Unit))],
      [kind |-> "cardDescription", shapes |-> {"full_cc"},
       txn |-> Dict("description" :> Str(<<"4", "5", "3", "2", " ", "0", "1", "5", "1", " ", "1", "2", "8", "3", " ", "0", "3", "6", "6">>) @@ "amount" :> Num(5 * Unit))],
      [kind |-> "phoneDescription", shapes |-> {"phone"},
       txn |-> Dict("description" :> Str(<<"C", "A", "L", "L", " ", "5", "5", "5", ".", "1", "2", "3", ".", "4", "5", "6", "7">>) @@ "merchant_name" :> Str(<<"A", "C", "M", "E">>) @@ "amount" :> Num(5 * Unit))],
      [kind |-> "emailMerchant", shapes |-> {"email"},
       txn |-> Dict("merchant_name" :> Str(<<"B", "o", "b", "@", "E", "x", ".", "i", "o">>) @@ "amount" :> Num(5 * Unit))],
      [kind |-> "emailThenSsn", shapes |-> {"email", "ssn"},
       txn |-> Dict("description" :> Str(<<"a", "@", "b", ".", "c", "o">>) @@ "merchant_name" :> Str(<<"5", "5", "5", "-", "1", "2", "-", "3", "4", "5", "6">>) @@ "amount" :> Num(5 * Unit))],
      [kind |-> "phoneThenCard", shapes |-> {"phone", "full_cc"},
       txn |-> Dict("description" :> Str(<<"5", "5", "5", "1", "2", "3", "4", "5", "6", "7">>) @@ "merchant_name" :> Str(<<"4", "5", "3", "2", "-", "0", "1", "5", "1", "-", "1", "2", "8", "3", "-", "0", "3", "6", "6">>) @@ "amount" :> Num(5 * Unit))],
      [kind |-> "gluedSsn", shapes |-> {},
       txn |-> Dict("description" :> Str(<<"I", "D", "5", "5", "5", "-", "1", "2", "-", "3", "4", "5", "6">>) @@ "merchant_name" :> Str(<<"5", "5", "5", "-", "1", "2", "-", "3", "4", "5", "6", "7">>) @@ "amount" :> Num(5 * Unit))],
      [kind |-> "shortCard", shapes |-> {},
       txn |-> Dict("description" :> Str(<<"4", "5", "3", "2", " ", "0", "1", "5", "1", " ", "1", "2", "8", "3">>) @@ "merchant_name" :> Str(<<"a", "@", "b">>) @@ "amount" :> Num(5 * Unit))],
      [kind |-> "otherField", shapes |-> {},
       txn |-> Dict("description" :> Str(<<"R", "E", "N", "T">>) @@ "notes" :> Str(<<"5", "5", "5", "-", "1", "2", "-", "3", "4", "5", "6">>)
                    @@ "category" :> Str(<<"a", "@", "b", ".", "c", "o">>) @@ "reference" :> Str(<<"5", "5", "5", "1", "2", "3", "4", "5", "6", "7">>))],
      [kind |-> "noText", shapes |-> {}, txn |-> Dict("description" :> Null @@ "merchant_name" :> Bool(TRUE))],
      [kind |-> "bare", shapes |-> {}, txn |-> EmptyDict] }

ScannedLists == UNION {[1..n -> ScannedKinds] : n \in 0..MaxScanned}

\* A record with the transactions given; with elsewhere, text shaped like an
\* SSN, a card number and an e-mail address stands in its other sections.
PiiRecord(txns, elsewhere) ==
    Dict("transactions" :> List([i \in 1..Len(txns) |-> txns[i].txn])
         @@ (IF elsewhere
             THEN "statement_metadata" :> Dict("record_id" :> Str(<<"5", "5", "5", "-", "1", "2", "-", "3", "4", "5", "6">>)
                                               @@ "card_identifier" :> Str(<<"4", "5", "3", "2", "0", "1", "5", "1", "1", "2", "8", "3", "0", "3", "6", "6">>))
                  @@ "account_info" :> Dict("holder" :> Str(<<"a", "@", "b", ".", "c", "o">>))
             ELSE <<>>))

\* Records whose transactions cannot be scanned.
UnscannedRecords ==
    { Dict("transactions" :> Null), Dict("transactions" :> Num(3 * Unit)),
      Dict("transactions" :> Str(<<"5", "5", "5", "-", "1", "2", "-", "3", "4", "5", "6">>)),
      Dict("transactions" :> List(<<Str(<<"5", "5", "5", "-", "1", "2", "-", "3", "4", "5", "6">>)>>)),
      Dict("transactions" :> List(<<EmptyDict, Null>>)) }

PiiArgs ==
    {[fn |-> "scan_for_basic_pii", data |-> PiiRecord(txns, elsewhere),
      scanned |-> [i \in 1..Len(txns) |-> [kind |-> txns[i].kind, shapes |-> txns[i].shapes]]] :
        txns \in ScannedLists, elsewhere \in BOOLEAN}
    \cup {[fn |-> "scan_for_basic_pii", data |-> d, scanned |-> <<>>] :
            d \in UnscannedRecords \cup {EmptyDict, Dict("transactions" :> EmptyStr)}}

Call_scan_for_basic_pii ==
    /\ pc = "start" /\ args.fn = "scan_for_basic_pii"
    /\ IF scan_for_basic_pii_raises(args.data)
       THEN pc' = "raised" /\ out' = out
       ELSE pc' = "returned" /\ out' = scan_for_basic_pii(args.data)
    /\ UNCHANGED <<input, args, schema, validation_result, proof_response, calls>>

InitPii ==
    /\ pc = "start"
    /\ input = NoFile
    /\ schema = Unset
    /\ validation_result = Unset
    /\ proof_response = Unset
    /\ calls = <<>>
    /\ out = Unset
    /\ args \in PiiArgs

NextPii == Call_scan_for_basic_pii

SpecPii == InitPii /\ [][NextPii]_vars

----------------------------------------------------------------------------
(* Properties of the PII scan, checked under SpecPii *)

PiiReturned == args.fn = "scan_for_basic_pii" /\ pc = "returned"

\* The first of ssn, full_cc, phone, email among the shapes, "" for none.
FirstShape(shapes) ==
    IF "ssn" \in shapes THEN "ssn"
    ELSE IF "full_cc" \in shapes THEN "full_cc"
    ELSE IF "phone" \in shapes THEN "phone"
    ELSE IF "email" \in shapes THEN "email"
    ELSE ""

\* The transactions of the call with a finding.
Findings == {i \in 1..Len(args.scanned) : args.scanned[i].shapes # {}}

\* C18: scan_for_basic_pii looks at the description and merchant_name of each
\* transaction only and records one finding at most per transaction, the
\* first of ssn, full_cc, phone, email that matches either text, so pii_count
\* is at most the number of transactions; pii_detected is pii_count > 0,
\* is_clean its negation, pii_types the set of the types found; a description
\* with the SSN-shaped text 555-12-3456 gives pii_detected with ssn among the
\* types, and such text in any other field goes undetected.
C18_PiiAccounting ==
    PiiReturned =>
        /\ out.pii_count = Cardinality(Findings)
        /\ out.pii_count <= Len(args.scanned)
        /\ out.pii_types = {FirstShape(args.scanned[i].shapes) : i \in Findings}
        /\ out.pii_detected <=> out.pii_count > 0
        /\ out.is_clean <=> ~out.pii_detected
        /\ (\E i \in 1..Len(args.scanned) : args.scanned[i].kind = "ssnDescription") =>
              out.pii_detected /\ "ssn" \in out.pii_types

\* Two findings of different types in two transactions, one of which matches
\* two patterns.
C18_Witness_OnePerTransaction ==
    /\ PiiReturned
    /\ Len(args.scanned) = 2
    /\ args.scanned[1].kind = "emailThenSsn" /\ args.scanned[2].kind = "phoneThenCard"
    /\ out.pii_count = 2 /\ out.pii_types = {"ssn", "full_cc"}

\* PII-shaped text outside description and merchant_name goes undetected.
C18_Witness_OtherFieldsClean ==
    /\ PiiReturned
    /\ Len(args.scanned) = 1 /\ args.scanned[1].kind = "otherField"
    /\ HasKey(args.data, "account_info")
    /\ out.is_clean /\ out.pii_count = 0

----------------------------------------------------------------------------
(* validators/uniqueness.py *)

\* What a ledger collaborator does when asked for the contributor's file
\* count: it returns a count, it raises, or it returns a value that cannot
\* be compared with 0. blockchain_client is [supplied, outcome, count, error].
LedgerOutcomes == {"count", "raises", "uncounted"}

\* data.get('statement_metadata', {}).get(key, default)
UniquenessField(data, key, default) == Get(Get(data, "statement_metadata", EmptyDict), key, default)

\* `if blockchain_client:` is entered after a record_id was found.
LedgerConsulted(data, blockchain_client) ==
    Truthy(UniquenessField(data, "record_id", Null)) /\ blockchain_client.supplied

\* The try block: a count above 0 returns DUPLICATE_RECORD_ID, an exception
\* (of the lookup, or of the comparison existing_count > 0) returns
\* BLOCKCHAIN_CHECK_FAILED; [passed |-> TRUE] when the block falls through.
LedgerVerdict_FailOpen(record_id, blockchain_client) ==
    IF blockchain_client.outcome = "count" /\ blockchain_client.count > 0
    THEN [passed |-> FALSE,
          result |-> [is_unique |-> FALSE, reason |-> "DUPLICATE_RECORD_ID",
                      record_id |-> record_id, existing_count |-> blockchain_client.count]]
    ELSE [passed |-> TRUE]

LedgerVerdict(record_id, blockchain_client) ==
    IF blockchain_client.outcome # "count"
    THEN [passed |-> FALSE,
          result |-> [is_unique |-> FALSE, reason |-> "BLOCKCHAIN_CHECK_FAILED",
                      error |-> blockchain_client.error]]
    ELSE IF blockchain_client.count > 0
    THEN [passed |-> FALSE,
          result |-> [is_unique |-> FALSE, reason |-> "DUPLICATE_RECORD_ID",
                      record_id |-> record_id, existing_count |-> blockchain_client.count]]
    ELSE [passed |-> TRUE]

\* if statement_period and card_identifier:
PeriodChecked(data) ==
    /\ Truthy(UniquenessField(data, "statement_period", EmptyDict))
    /\ Truthy(UniquenessField(data, "card_identifier", Null))

PeriodInvalid_BothMissing(statement_period) ==
    /\ ~Truthy(Get(statement_period, "start_date", Null))
    /\ ~Truthy(Get(statement_period, "end_date", Null))

\* if not start_date or not end_date
PeriodInvalid(statement_period) ==
    \/ ~Truthy(Get(statement_period, "start_date", Null))
    \/ ~Truthy(Get(statement_period, "end_date", Null))

LedgerPasses(data, blockchain_client) ==
    LedgerConsulted(data, blockchain_client)
        => LedgerVerdict(UniquenessField(data, "record_id", Null), blockchain_client).passed

\* validate_uniqueness raises when a section is no dict, or when a period
\* that is no dict is asked for its dates.
validate_uniqueness_raises(data, blockchain_client) ==
    IF ~IsDict(data) THEN TRUE
    ELSE IF ~IsDict(Get(data, "statement_metadata", EmptyDict)) THEN TRUE
    ELSE IF ~Truthy(UniquenessField(data, "record_id", Null)) THEN FALSE
    ELSE IF ~LedgerPasses(data, blockchain_client) THEN FALSE
    ELSE PeriodChecked(data) /\ ~IsDict(UniquenessField(data, "statement_period", EmptyDict))

validate_uniqueness(data, blockchain_client) ==
    LET record_id == UniquenessField(data, "record_id", Null)
    IN  IF ~Truthy(record_id)
        THEN [is_unique |-> FALSE, reason |-> "MISSING_RECORD_ID"]
        ELSE IF ~LedgerPasses(data, blockchain_client)
        THEN LedgerVerdict(record_id, blockchain_client).result
        ELSE IF /\ PeriodChecked(data)
                /\ PeriodInvalid(UniquenessField(data, "statement_period", EmptyDict))
        THEN [is_unique |-> FALSE, reason |-> "INVALID_STATEMENT_PERIOD",
              details |-> "Missing start or end date"]
        ELSE [is_unique |-> TRUE, record_id |-> record_id]

----------------------------------------------------------------------------
(* Direct calls of validate_uniqueness *)

\* The largest count a ledger reports.
MaxPriorCount == 3

NoLedger == [supplied |-> FALSE, outcome |-> "count", count |-> 0, error |-> ""]

Ledgers ==
    {NoLedger}
    \cup {[supplied |-> TRUE, outcome |-> "count", count |-> n, error |-> ""] : n \in 0..MaxPriorCount}
    \cup {[supplied |-> TRUE, outcome |-> "raises", count |-> 0, error |-> "connection refused"],
          [supplied |-> TRUE, outcome |-> "uncounted", count |-> 0,
           error |-> "'>' not supported between instances of 'NoneType' and 'int'"]}

RecordIds ==
    {NoField, Field(Null), Field(EmptyStr), Field(Num(0)),
     Field(Str(<<"R", "1">>)), Field(Num(7 * Unit))}

DateText == Str(<<"2", "0", "2", "4", "-", "0", "1", "-", "0", "1">>)

StatementPeriods ==
    {NoField, Field(Null), Field(EmptyDict), Field(Str(<<"2", "0", "2", "4", "-", "0", "1">>)),
     Field(List(<<DateText, DateText>>))}
    \cup {Field(Dict((IF s.present THEN "start_date" :> s.v ELSE <<>>)
                     @@ (IF e.present THEN "end_date" :> e.v ELSE <<>>)
                     @@ "days" :> Num(30 * Unit))) :
            s, e \in {NoField, Field(Null), Field(EmptyStr), Field(DateText)}}

UniquenessCards == {NoField, Field(EmptyStr), Field(Str(<<"4", "*", "*", "*">>))}

UniquenessRecord(record_id, statement_period, card_identifier) ==
    Dict("statement_metadata" :>
            Dict((IF record_id.present THEN "record_id" :> record_id.v ELSE <<>>)
                 @@ (IF statement_period.present THEN "statement_period" :> statement_period.v ELSE <<>>)
                 @@ (IF card_identifier.present THEN "card_identifier" :> card_identifier.v ELSE <<>>)))

UniquenessArgs ==
    {[fn |-> "validate_uniqueness", data |-> UniquenessRecord(r, p, c),
      blockchain_client |-> l, record_id |-> r, statement_period |-> p, card_identifier |-> c] :
        r \in RecordIds, p \in StatementPeriods, c \in UniquenessCards, l \in Ledgers}
    \cup {[fn |-> "validate_uniqueness", data |-> d, blockchain_client |-> l,
           record_id |-> NoField, statement_period |-> NoField, card_identifier |-> NoField] :
            d \in {Null, Dict("statement_metadata" :> Null), EmptyDict}, l \in Ledgers}

\* A call validate_uniqueness(data, blockchain_client); calls records the
\* methods invoked on the ledger.
Call_validate_uniqueness ==
    /\ pc = "start" /\ args.fn = "validate_uniqueness"
    /\ IF validate_uniqueness_raises(args.data, args.blockchain_client)
       THEN /\ pc' = "raised" /\ out' = out
            /\ calls' = IF IsDict(args.data) /\ IsDict(Get(args.data, "statement_metadata", EmptyDict))
                           /\ LedgerConsulted(args.data, args.blockchain_client)
                        THEN Append(calls, "get_contributor_file_count") ELSE calls
       ELSE /\ pc' = "returned"
            /\ out' = validate_uniqueness(args.data, args.blockchain_client)
            /\ calls' = IF LedgerConsulted(args.data, args.blockchain_client)
                        THEN Append(calls, "get_contributor_file_count") ELSE calls
    /\ UNCHANGED <<input, args, schema, validation_result, proof_response>>

InitUniqueness ==
    /\ pc = "start"
    /\ input = NoFile
    /\ schema = Unset
    /\ validation_result = Unset
    /\ proof_response = Unset
    /\ calls = <<>>
    /\ out = Unset
    /\ args \in UniquenessArgs

NextUniqueness == Call_validate_uniqueness

SpecUniqueness == InitUniqueness /\ [][NextUniqueness]_vars

----------------------------------------------------------------------------
(* Properties of the uniqueness checker, checked under SpecUniqueness *)

UniquenessEnded == args.fn = "validate_uniqueness" /\ pc # "start"

\* The field has a value that is not empty.
HasValue(field) == field.present /\ field.v \notin {Null, EmptyStr, EmptyDict, Num(0)}

\* The period of the call lacks a start or an end date.
DateMissing ==
    \/ ~HasKey(args.statement_period.v, "start_date")
    \/ ~HasKey(args.statement_period.v, "end_date")
    \/ args.statement_period.v.v["start_date"] \in {Null, EmptyStr}
    \/ args.statement_period.v.v["end_date"] \in {Null, EmptyStr}

\* The ledger of the call lets the record through: none was supplied, or the
\* lookup gave the count 0.
LedgerSilent ==
    \/ ~args.blockchain_client.supplied
    \/ args.blockchain_client.outcome = "count" /\ args.blockchain_client.count = 0

PeriodOfDates == HasValue(args.statement_period) /\ IsDict(args.statement_period.v)

C19_Witness_MissingRecordId ==
    /\ UniquenessEnded /\ pc = "returned"
    /\ ~args.record_id.present /\ args.blockchain_client.supplied
    /\ args.blockchain_client.count > 0
    /\ out.reason = "MISSING_RECORD_ID" /\ calls = <<>>

\* C20: with a ledger supplied and a record_id in the record, a count other
\* than 0 gives is_unique = false with DUPLICATE_RECORD_ID, a failed lookup
\* gives is_unique = false with BLOCKCHAIN_CHECK_FAILED, and is_unique = true
\* is returned only after a lookup that gave the count 0; the ledger's
\* verdict comes before the statement-period check; and the ledger is only
\* asked for the count, never written.
C20_LedgerFailsClosed ==
    /\ (UniquenessEnded /\ HasValue(args.record_id) /\ args.blockchain_client.supplied) =>
          /\ calls = <<"get_contributor_file_count">>
          /\ (args.blockchain_client.outcome = "count" /\ args.blockchain_client.count # 0) =>
                /\ pc = "returned"
                /\ out = [is_unique |-> FALSE, reason |-> "DUPLICATE_RECORD_ID",
                          record_id |-> args.record_id.v,
                          existing_count |-> args.blockchain_client.count]
          /\ args.blockchain_client.outcome # "count" =>
                /\ pc = "returned"
                /\ ~out.is_unique /\ out.reason = "BLOCKCHAIN_CHECK_FAILED"
          /\ (pc = "returned" /\ out.is_unique) =>
                args.blockchain_client.outcome = "count" /\ args.blockchain_client.count = 0
    /\ args.fn = "validate_uniqueness" =>
          calls \in {<<>>, <<"get_contributor_file_count">>}

\* A failed lookup rejects a record whose statement period is invalid as well.
C20_Witness_FailedLookupFirst ==
    /\ UniquenessEnded /\ pc = "returned"
    /\ HasValue(args.record_id) /\ HasValue(args.card_identifier) /\ PeriodOfDates /\ DateMissing
    /\ args.blockchain_client.supplied /\ args.blockchain_client.outcome = "raises"
    /\ out.reason = "BLOCKCHAIN_CHECK_FAILED"

\* A record is unique after a lookup that gave 0.
C20_Witness_UniqueAfterZero ==
    /\ UniquenessEnded /\ pc = "returned"
    /\ args.blockchain_client.supplied /\ args.blockchain_client.count = 0
    /\ args.blockchain_client.outcome = "count"
    /\ out.is_unique /\ calls = <<"get_contributor_file_count">>

----------------------------------------------------------------------------
(* Sessions: calculate_credit_statement_score on two records, in any order *)

\* The number of evaluations of a session.
MaxEvaluations == 3

\* A financial_summary whose closing balance is off the expected one by delta.
SessionSummary(delta) ==
    Dict( ("previous_balance" :> Num(100 * Unit)) @@ ("purchases" :> Num(50 * Unit))
          @@ ("payments_credits" :> Num(30 * Unit)) @@ ("fees_charged" :> Num(5 * Unit))
          @@ ("interest_charged" :> Num(2 * Unit)) @@ ("closing_balance" :> Num(127 * Unit + delta)) )

\* A record by its profiles; delta is absent for a record without
\* financial_summary.
SessionRecord(m, c, a, p, delta) ==
    [ data |-> Dict((IF delta.present THEN "financial_summary" :> SessionSummary(delta.v) ELSE <<>>)
                    @@ MkRecord(m, c, a, p).v),
      meta |-> m, country |-> c, account |-> a, txns |-> p, delta |-> delta ]

SessionTxns ==
    {[kind |-> "absent", n |-> 0], [kind |-> "empty", n |-> 0],
     [kind |-> "rich", n |-> 1], [kind |-> "rich", n |-> 5],
     [kind |-> "plain", n |-> 1], [kind |-> "plain", n |-> 5]}

EmptyTxns == {p \in SessionTxns : p.n = 0}

SessionDeltas == {Absent, Amount(0), Amount(5), Amount(5 * Unit)}

\* Any two of a few records, among them one whose evaluation raises.
MixedRecords ==
    { SessionRecord("full", "US", "full", [kind |-> "rich", n |-> 5], Amount(0)),
      SessionRecord("full", "IN", "partial", [kind |-> "rich", n |-> 1], Absent),
      SessionRecord("nested_period", "NG", "absent", [kind |-> "plain", n |-> 5], Amount(5 * Unit)),
      SessionRecord("bare", "in", "zero", [kind |-> "empty", n |-> 0], Absent),
      SessionRecord("absent", "absent", "absent", [kind |-> "absent", n |-> 0], Absent),
      SessionRecord("full", "US", "full", [kind |-> "bad_amount", n |-> 3], Amount(0)),
      SessionRecord("null", "US", "full", [kind |-> "rich", n |-> 1], Absent) }

MixedPairs == {<<r, s>> : r, s \in MixedRecords}

SessionMetas == {"full", "nested_period", "bare"}
SessionCountries == {"US", "IN", "NG"}

\* A record without transactions, and the record with transactions added.
AddedPairs ==
    {<<SessionRecord(m, c, a, before, Amount(0)), SessionRecord(m, c, a, after, Amount(0))>> :
        m \in SessionMetas, c \in {"US", "NG"}, a \in {"full", "absent"},
        before \in EmptyTxns, after \in SessionTxns \ EmptyTxns}

\* A record whose closing balance reconciles, and the record with another
\* closing balance or without a summary.
SummaryPairs ==
    {<<SessionRecord(m, c, a, p, Amount(0)), SessionRecord(m, c, a, p, delta)>> :
        m \in {"full", "bare"}, c \in SessionCountries, a \in {"full", "absent"},
        p \in {[kind |-> "empty", n |-> 0], [kind |-> "rich", n |-> 5]},
        delta \in SessionDeltas \ {Amount(0)}}

SessionArgs ==
    {[fn |-> "calculate_credit_statement_score", records |-> pair] :
        pair \in MixedPairs \cup AddedPairs \cup SummaryPairs}

\* COUNTRY_TIERS as the module holds it.
CountryTable == [code \in CountryCodes |-> COUNTRY_TIERS(code)]

\* What an evaluation leaves of the record it was given: the scorers read it
\* with .get, len and iteration, and assign to none of its entries.
RecordAfter(data) == data

\* What an evaluation leaves of self.countries: get_country_info reads it
\* with `in` and [] only.
CountriesAfter(countries, data) == countries

\* The outcome of an evaluation of data after the evaluations made so far:
\* the scorers keep nothing between calls.
EvaluationOutcome_Carried(data, earlier) ==
    IF earlier # <<>> THEN earlier[Len(earlier)].outcome
    ELSE IF calculate_credit_statement_score_raises(data) THEN [raised |-> TRUE, result |-> Null]
    ELSE [raised |-> FALSE, result |-> calculate_credit_statement_score(data)]

EvaluationOutcome(data, earlier) ==
    IF calculate_credit_statement_score_raises(data) THEN [raised |-> TRUE, result |-> Null]
    ELSE [raised |-> FALSE, result |-> calculate_credit_statement_score(data)]

\* One evaluation of record i of the session. input holds the two records
\* as the caller holds them, out the evaluations made and self.countries.
Evaluate(i) ==
    /\ pc \in {"start", "evaluating"}
    /\ args.fn = "calculate_credit_statement_score"
    /\ Len(out.evaluations) < MaxEvaluations
    /\ out' = [ evaluations |-> Append(out.evaluations,
                                        [of |-> i, outcome |-> EvaluationOutcome(input[i], out.evaluations)]),
                 countries |-> CountriesAfter(out.countries, input[i]) ]
    /\ input' = [input EXCEPT ![i] = RecordAfter(input[i])]
    /\ pc' = "evaluating"
    /\ UNCHANGED <<args, schema, validation_result, proof_response, calls>>

\* The caller evaluates either record of the session next.
EvaluateRecord == \E i \in 1..2 : Evaluate(i)

InitSession ==
    /\ pc = "start"
    /\ schema = Unset
    /\ validation_result = Unset
    /\ proof_response = Unset
    /\ calls = <<>>
    /\ args \in SessionArgs
    /\ input = <<args.records[1].data, args.records[2].data>>
    /\ out = [evaluations |-> <<>>, countries |-> CountryTable]

NextSession == EvaluateRecord

SpecSession == InitSession /\ [][NextSession]_vars

----------------------------------------------------------------------------
(* Properties of sessions, checked under SpecSession *)

InSession == args.fn = "calculate_credit_statement_score"
Evaluations ==
    [j \in 1..Len(out.evaluations) |->
        [of |-> out.evaluations[j].of,
         raised |-> out.evaluations[j].outcome.raised,
         result |-> out.evaluations[j].outcome.result]]

\* What is compared of two evaluations: whether they raised, and the score,
\* the total points and the breakdown.
Outcome(e) ==
    IF e.raised THEN <<"raised">>
    ELSE <<"returned", e.result.score, e.result.total_points, e.result.breakdown>>

C21_Witness_AfterRaise ==
    /\ InSession /\ Len(Evaluations) = 2
    /\ Evaluations[1].raised /\ ~Evaluations[2].raised
    /\ Evaluations[2].result.breakdown.raw_total = RInt(1)

\* The evaluations of record i of the session that returned.
ReturnedOf(i) == {j \in 1..Len(Evaluations) : Evaluations[j].of = i /\ ~Evaluations[j].raised}

\* The number of tier-1 and tier-2 fields of the record that are present.
Coverage(data) ==
    Cardinality({i \in 1..Len(tier1_fields) : has_field(data, tier1_fields[i])})
    + Cardinality({i \in 1..Len(tier2_fields) : has_field(data, tier2_fields[i])})

\* The second record of the session is the first one with transactions
\* added: more tier-1 and tier-2 fields are present, and the closing balance
\* reconciles as before.
TransactionsAdded ==
    /\ args.records[1].txns.n = 0 /\ args.records[2].txns.n > 0
    /\ [args.records[1] EXCEPT !.txns = 0, !.data = 0] = [args.records[2] EXCEPT !.txns = 0, !.data = 0]
    /\ Coverage(args.records[2].data) > Coverage(args.records[1].data)
    /\ \A err \in FinancialRoundings(args.records[1].data) :
          validate_financial_integrity(args.records[2].data, err).balance_score
              = validate_financial_integrity(args.records[1].data, err).balance_score

\* C22: adding a transaction that raises the tier-1/tier-2 field coverage of
\* a record (its empty transactions list becomes non-empty) and leaves the
\* balance consistency as it was never lowers the final score of
\* calculate_credit_statement_score.
C22_AddingTransactionsNeverLowers ==
    (InSession /\ TransactionsAdded) =>
        \A j \in ReturnedOf(1), k \in ReturnedOf(2) :
            /\ RLe(Evaluations[j].result.score, Evaluations[k].result.score)
            /\ RLe(Evaluations[j].result.total_points, Evaluations[k].result.total_points)

\* Five terse transactions added to a record without any raise its score.
C22_Witness_TerseAdded ==
    /\ InSession /\ TransactionsAdded
    /\ args.records[2].txns = [kind |-> "plain", n |-> 5]
    /\ ReturnedOf(1) # {} /\ ReturnedOf(2) # {}
    /\ \A j \in ReturnedOf(1), k \in ReturnedOf(2) :
          RLt(Evaluations[j].result.total_points, Evaluations[k].result.total_points)

\* The closing balance of the record reconciles (balance_score 1.0) or fails
\* to (balance_score 0.0), whatever the rounding of the sums.
BalanceScoreIs(data, score) ==
    \A err \in FinancialRoundings(data) : validate_financial_integrity(data, err).balance_score = score

\* The second record of the session is the first one with a closing balance
\* that fails to reconcile.
ClosingBalanceBroken ==
    /\ args.records[1].delta.present /\ args.records[2].delta.present
    /\ [args.records[1] EXCEPT !.delta = 0, !.data = 0] = [args.records[2] EXCEPT !.delta = 0, !.data = 0]
    /\ BalanceScoreIs(args.records[1].data, Rat(10, 10))
    /\ BalanceScoreIs(args.records[2].data, Rat(0, 10))

\* C23: a balance mismatch never rejects the record, and it depresses the
\* score: the record whose closing balance fails to reconcile receives a
\* lower raw_total than the otherwise identical record whose closing balance
\* reconciles.
C23_MismatchLowersRawTotal ==
    (InSession /\ ClosingBalanceBroken) =>
        \A j \in ReturnedOf(1), k \in ReturnedOf(2) :
            /\ Evaluations[k].result.valid /\ ~Evaluations[k].result.rejected
            /\ RLt(Evaluations[k].result.breakdown.raw_total, Evaluations[j].result.breakdown.raw_total)

(***************************************************************************)
(* Direct calls of has_field.                                              *)
(***************************************************************************)

\* The paths asked for: tier fields of one, two and three keys, and a path
\* that ends in the key transactions below another mapping.
FieldPaths ==
    << <<"transactions">>,
       <<"account_info", "credit_limit">>,
       <<"statement_metadata", "statement_period", "start_date">>,
       <<"engineered_features", "transactions">> >>

\* Leaf values, by name.
LeafNames == {"zero", "false", "empty_str", "null", "text", "empty_list", "list", "empty_dict", "dict"}

Leaf(name) ==
    CASE name = "zero" -> Num(0)
      [] name = "false" -> Bool(FALSE)
      [] name = "empty_str" -> EmptyStr
      [] name = "null" -> Null
      [] name = "text" -> Str(<<"x">>)
      [] name = "empty_list" -> List(<<>>)
      [] name = "list" -> List(<<Dict("amount" :> Num(Unit))>>)
      [] name = "empty_dict" -> EmptyDict
      [] name = "dict" -> Dict("other" :> Num(0))

\* What stands where a mapping is expected.
NonMappingNames == {"null", "text", "list", "zero"}

\* The record that holds leaf under keys[i..]; with cut.kind = "missing" the
\* mapping that should hold keys[cut.at] lacks it, with "not_mapping" a value
\* that is no mapping stands in its place.
RECURSIVE BuildNested(_, _, _, _)
BuildNested(keys, i, leaf, cut) ==
    IF i > Len(keys) THEN leaf
    ELSE IF cut.kind = "not_mapping" /\ cut.at = i THEN Leaf(cut.as)
    ELSE IF cut.kind = "missing" /\ cut.at = i THEN Dict("other" :> Num(0))
    ELSE Dict(("other" :> Num(0)) @@ (keys[i] :> BuildNested(keys, i + 1, leaf, cut)))

Cuts(keys) ==
    {[kind |-> "none", at |-> 0, as |-> "null"]}
    \cup {[kind |-> "missing", at |-> k, as |-> "null"] : k \in 1..Len(keys)}
    \cup {[kind |-> "not_mapping", at |-> k, as |-> v] : k \in 1..Len(keys), v \in NonMappingNames}

HasFieldArgs ==
    UNION {UNION {{[fn |-> "has_field", field_path |-> FieldPaths[p], leaf |-> l, cut |-> c,
                    data |-> BuildNested(FieldPaths[p], 1, Leaf(l), c)] :
                       l \in IF c.kind = "none" THEN LeafNames ELSE {"text"}} :
                  c \in Cuts(FieldPaths[p])} :
           p \in 1..Len(FieldPaths)}

Call_has_field ==
    /\ pc = "start" /\ args.fn = "has_field"
    /\ out' = has_field(args.data, args.field_path)
    /\ pc' = "returned"
    /\ UNCHANGED <<input, args, schema, validation_result, proof_response, calls>>

InitHasField ==
    /\ pc = "start"
    /\ input = NoFile
    /\ schema = Unset
    /\ validation_result = Unset
    /\ proof_response = Unset
    /\ calls = <<>>
    /\ out = Unset
    /\ args \in HasFieldArgs

NextHasField == Call_has_field

SpecHasField == InitHasField /\ [][NextHasField]_vars

HasFieldReturned == pc = "returned" /\ args.fn = "has_field"

\* C24: has_field(record, path) is true exactly when every key along the
\* path exists in a nested mapping and the leaf is not null (0, false and
\* the empty string count as present); for the path transactions the leaf
\* must be a non-empty list.
C24_FieldPresence ==
    HasFieldReturned =>
        (out <=> /\ args.cut.kind = "none"
                 /\ args.leaf # "null"
                 /\ (args.field_path = <<"transactions">> => args.leaf = "list"))

\* Leaves 0, false and the empty string are found present, and an empty
\* list under another key than the top-level transactions is too.
C24_Witness_FalsyLeafPresent ==
    /\ HasFieldReturned /\ out
    /\ args.leaf \in {"zero", "false", "empty_str", "empty_list"}
    /\ Len(args.field_path) > 1

(***************************************************************************)
(* The point budgets of the six sub-scores.                                *)
(***************************************************************************)

\* The number of transactions of the record that generate() scores.
ScoredCount ==
    LET data == input.data
    IN  IF IsDict(data) /\ HasKey(data, "transactions") /\ IsList(data.v["transactions"])
        THEN Len(data.v["transactions"].v) ELSE 0

\* The points each breakpoint adds once the count has reached it; a sum of
\* steps, hence non-decreasing in the count.
VolumeSteps == <<[at |-> 1, points |-> 2], [at |-> 5, points |-> 4], [at |-> 10, points |-> 6],
                 [at |-> 20, points |-> 6], [at |-> 30, points |-> 4], [at |-> 50, points |-> 3]>>

RECURSIVE VolumeBudget(_, _)
VolumeBudget(count, i) ==
    IF i > Len(VolumeSteps) THEN 0
    ELSE (IF count >= VolumeSteps[i].at THEN VolumeSteps[i].points ELSE 0) + VolumeBudget(count, i + 1)

Within(x, low, high) == RLe(RInt(low), x) /\ RLe(x, RInt(high))

GenerateScored == Generating /\ pc \in {"scored", "done"} /\ validation_result # Unset

\* C25: transaction_volume is the value of {0, 2, 6, 12, 18, 22, 25} that
\* the breakpoints >=1, >=5, >=10, >=20, >=30, >=50 give for the count and
\* is non-decreasing in it; transaction_diversity lies in [0, 20],
\* transaction_detail in [0, 15], core_statement in [0, 25],
\* account_completeness in [0, 10] and financial_consistency in [0, 5]; the
\* six budgets sum to 100.
C25_PointBudgets ==
    GenerateScored =>
        LET b == validation_result.breakdown
        IN  /\ b.transaction_volume = RInt(VolumeBudget(ScoredCount, 1))
            /\ b.transaction_volume \in {RInt(v) : v \in {0, 2, 6, 12, 18, 22, 25}}
            /\ Within(b.transaction_diversity, 0, 20)
            /\ Within(b.transaction_detail, 0, 15)
            /\ Within(b.core_statement, 0, 25)
            /\ Within(b.account_completeness, 0, 10)
            /\ Within(b.financial_consistency, 0, 5)
            /\ 25 + 20 + 15 + 25 + 10 + 5 = 100

\* A record of 29 transactions is scored 18 for its volume, and every other
\* sub-score is at the top of its budget.
C25_Witness_BelowThirty ==
    /\ GenerateScored /\ ScoredCount = 29
    /\ validation_result.breakdown.transaction_volume = RInt(18)
    /\ validation_result.breakdown.core_statement = RInt(25)
    /\ validation_result.breakdown.account_completeness = RInt(10)
    /\ validation_result.breakdown.financial_consistency = RInt(5)
    /\ RLe(RInt(15), validation_result.breakdown.transaction_detail)

(***************************************************************************)
(* The floor of the score.                                                 *)
(***************************************************************************)

\* The least final score of a scored record of the tier: 1 x multiplier + bonus.
FloorOfTier(tier) == RAdd(RMul(RInt(1), MultiplierOfTier[tier]), RInt(BonusOfTier[tier]))

\* C26: a scored record never gets a zero score: financial_consistency is at
\* least 1, so raw_total >= 1, and the final score is at least 1 x multiplier
\* + scarcity_bonus of the record's tier (12.3 points, vana_score 0.123, for
\* tier 5); a score of 0 occurs only in rejection results.
C26_ScoredNeverZero ==
    /\ GenerateScored =>
         LET tier == validation_result.country_info.tier
         IN  /\ RLe(RInt(1), validation_result.breakdown.financial_consistency)
             /\ RLe(RInt(1), validation_result.breakdown.raw_total)
             /\ RLe(FloorOfTier(tier), validation_result.total_points)
             /\ RLt(RInt(0), validation_result.score)
             /\ tier = 5 => /\ RLe(Rat(123, 10), validation_result.total_points)
                            /\ RLe(Rat(123, 1000), validation_result.score)
    /\ (Generating /\ pc = "done" /\ ~RLt(RInt(0), proof_response.score)) =>
         /\ ~proof_response.valid
         /\ proof_response.attributes.rejected
    /\ (pc = "returned" /\ args.fn = "rejection_response") => ~RLt(RInt(0), out.score)

\* A record with a tier-5 country code and nothing that earns points is
\* scored 12.3 points, vana_score 0.123, from a raw total of 1.
C26_Witness_TierFiveFloor ==
    /\ GenerateScored
    /\ validation_result.country_info.tier = 5
    /\ validation_result.breakdown.raw_total = RInt(1)
    /\ RCmp(validation_result.total_points, Rat(123, 10)) = 0
    /\ RCmp(validation_result.score, Rat(123, 1000)) = 0

(***************************************************************************)
(* The cap of the country adjustment within the point budget.              *)
(***************************************************************************)

\* The highest final score of each tier.
HighestOfTier == <<100, 82, 65, 48, 42>>

WithinBudget == AdjustedReturned /\ Within(args.base_score, 0, 100)

\* C27: for every tier and every raw score in [0, 100] the cap does not
\* bind, final_score = adjusted_total, and the highest final score is 100,
\* 82, 65, 48 and 42 for tiers 1 to 5, reached at a raw score of 100.
C27_CapNeverBinds ==
    WithinBudget =>
        LET tier == out.country_info.tier
        IN  /\ out.final_score = out.adjusted_total
            /\ RLe(out.final_score, RInt(HighestOfTier[tier]))
            /\ (RCmp(out.final_score, RInt(HighestOfTier[tier])) = 0) <=> (args.base_score = RInt(100))

\* A tier-5 country with a raw score of 100 gets 42.
C27_Witness_TierFiveHighest ==
    /\ WithinBudget /\ args.base_score = RInt(100)
    /\ out.country_info.tier = 5
    /\ RCmp(out.adjusted_total, RInt(42)) = 0
    /\ RCmp(out.final_score, RInt(42)) = 0

(***************************************************************************)
(* The statement-period credit.                                            *)
(***************************************************************************)

\* The statement_metadata of the record that generate() scores.
ScoredMetadata == input.data.v["statement_metadata"]

HasMetadata == IsDict(input.data) /\ HasKey(input.data, "statement_metadata") /\ IsDict(ScoredMetadata)

\* The record carries its period as nested statement_period {start_date,
\* end_date} and has no flat statement_period_start or statement_period_end.
PeriodOnlyNested ==
    /\ HasMetadata
    /\ HasKey(ScoredMetadata, "statement_period")
    /\ IsDict(ScoredMetadata.v["statement_period"])
    /\ DOMAIN ScoredMetadata.v["statement_period"].v = {"start_date", "end_date"}
    /\ ~HasKey(ScoredMetadata, "statement_period_start")
    /\ ~HasKey(ScoredMetadata, "statement_period_end")

PeriodFlat ==
    /\ HasMetadata
    /\ HasKey(ScoredMetadata, "statement_period_start")
    /\ HasKey(ScoredMetadata, "statement_period_end")

\* C28: the period credit of calculate_core_statement_score is keyed on the
\* flat statement_metadata fields statement_period_start and
\* statement_period_end: a record that carries its period only as nested
\* statement_metadata.statement_period has core_statement at most 22 and
\* raw_total at most 97, and only records with the flat fields get more.
C28_PeriodCreditIsFlat ==
    GenerateScored =>
        LET b == validation_result.breakdown
        IN  /\ PeriodOnlyNested => /\ RLe(b.core_statement, RInt(22))
                                   /\ RLe(b.raw_total, RInt(97))
            /\ RLt(RInt(22), b.core_statement) => PeriodFlat

\* A record with the nested period and every other field that earns points
\* stops at 22 and 97.
C28_Witness_NestedStopsShort ==
    /\ GenerateScored /\ PeriodOnlyNested
    /\ validation_result.breakdown.core_statement = RInt(22)
    /\ RCmp(validation_result.breakdown.raw_total, RInt(97)) = 0

============================================================================
